---- MODULE Spec2Model ----
(***************************************************************************)
(* Model of the TRVZB scheduler card: the schedule codec, the diff and     *)
(* payload builder, the Home Assistant service layer and the save /        *)
(* synchronisation state machine of TRVZBSchedulerCard.                    *)
(*                                                                         *)
(* Representation:                                                         *)
(*   - a Transition is [time |-> minutes since midnight,                   *)
(*     temperature |-> tenths of a degree]; its "HH:mm" text is            *)
(*     minutesToTime(time) and its number text is TemperatureString;       *)
(*   - wire strings, entity ids, topics and payload keys are TLA+ strings  *)
(*     built with \o exactly as the code's template literals build them;   *)
(*   - hass.states is a function from the entity ids that exist to their   *)
(*     state string (an absent key is outside its DOMAIN);                 *)
(*   - an entity id is the sequence of its dot-separated parts;            *)
(*   - null schedules are Null (<<>>), null strings are NullString.        *)
(***************************************************************************)
EXTENDS Integers, Sequences, FiniteSets, TLC

VARIABLES
    entity,                 \* config.entity, as dot-separated parts
    hass,                   \* hass.states of the hass object last handed to the card
    schedule,               \* _schedule (working) or Null
    originalSchedule,       \* _originalSchedule or Null
    saving,                 \* _saving
    error,                  \* _error or NullString
    hasUnsavedChanges,      \* _hasUnsavedChanges
    previousEntityId,       \* _previousEntityId or Null
    pendingSaveSchedule,    \* _pendingSaveSchedule or Null
    pendingSaveTimeoutId,   \* _pendingSaveTimeoutId: 0 (null) or the handle of a timer
    pendingSaveId,          \* _pendingSaveId
    timers,                 \* armed setTimeout callbacks, each named by the saveId it closes over
    inFlight,               \* the mqtt.publish calls not yet settled: [topic, payload]
    last,                   \* the handler that ran last and the branch it took
    copySourceDay,          \* _copySourceDay or NullString (_showCopyDialog is true exactly when it is set)
    sharedDays,             \* the days whose objects _schedule and _originalSchedule share
    pureCall,               \* the application of a pure function under evaluation, or NoCall
    pureResult              \* <<value>> once the function of pureCall has returned, else <<>>

\* the state of the card
cardVars == <<entity, hass, schedule, originalSchedule, saving, error, hasUnsavedChanges,
              previousEntityId, pendingSaveSchedule, pendingSaveTimeoutId, pendingSaveId,
              timers, inFlight, last, copySourceDay, sharedDays>>

\* the evaluation of a pure function of the library modules
pureVars == <<pureCall, pureResult>>

vars == <<cardVars, pureVars>>

-----------------------------------------------------------------------------
(* Bounds of the model *)

\* Date.now() returns a value in 1..MaxNow
MaxNow == 1

Null == <<>>
NullString == "null"

\* no pure function is under evaluation
NoCall == [fn |-> "none"]

-----------------------------------------------------------------------------
(* models/types.ts *)

DAYS_OF_WEEK == <<"sunday", "monday", "tuesday", "wednesday", "thursday", "friday", "saturday">>

DayKeys == {DAYS_OF_WEEK[i] : i \in 1..Len(DAYS_OF_WEEK)}

-----------------------------------------------------------------------------
(* utils/time.ts *)

Digit(n) ==
    CASE n = 0 -> "0" [] n = 1 -> "1" [] n = 2 -> "2" [] n = 3 -> "3" [] n = 4 -> "4"
      [] n = 5 -> "5" [] n = 6 -> "6" [] n = 7 -> "7" [] n = 8 -> "8" [] n = 9 -> "9"

RECURSIVE NumberToString(_)
\* Number.prototype.toString of a non-negative integer
NumberToString(n) ==
    IF n < 10 THEN Digit(n) ELSE NumberToString(n \div 10) \o Digit(n % 10)

\* String.prototype.padStart(2, '0')
PadStart2(s) == IF Len(s) < 2 THEN "0" \o s ELSE s

formatTime(hours, minutes) ==
    PadStart2(NumberToString(hours)) \o ":" \o PadStart2(NumberToString(minutes))

\* defined for 0 <= minutes < 1440 (the code throws outside)
minutesToTime(minutes) == formatTime(minutes \div 60, minutes % 60)

-----------------------------------------------------------------------------
(* models/schedule.ts: the codec *)

\* the text of a temperature held in tenths of a degree: 200 -> "20", 225 -> "22.5"
TemperatureString(t10) ==
    IF t10 % 10 = 0 THEN NumberToString(t10 \div 10)
    ELSE NumberToString(t10 \div 10) \o "." \o Digit(t10 % 10)

\* one wire token HH:mm/T
TransitionToken(t) == minutesToTime(t.time) \o "/" \o TemperatureString(t.temperature)

RECURSIVE InsertByTime(_, _)
\* t placed before the first element that is later; transitions of the same
\* time are ordered by temperature, which makes the result independent of the
\* input order (the serialized string is canonical)
InsertByTime(t, sorted) ==
    IF sorted = <<>> THEN <<t>>
    ELSE IF \/ t.time < Head(sorted).time
            \/ t.time = Head(sorted).time /\ t.temperature < Head(sorted).temperature
         THEN <<t>> \o sorted
    ELSE <<Head(sorted)>> \o InsertByTime(t, Tail(sorted))

RECURSIVE SortByTime(_)
\* transitions sorted by time ascending
SortByTime(transitions) ==
    IF transitions = <<>> THEN <<>>
    ELSE InsertByTime(transitions[Len(transitions)],
                      SortByTime(SubSeq(transitions, 1, Len(transitions) - 1)))

RECURSIVE JoinTokens(_)
\* the tokens of the transitions, in the order given, joined by single spaces
JoinTokens(transitions) ==
    IF transitions = <<>> THEN ""
    ELSE IF Len(transitions) = 1 THEN TransitionToken(transitions[1])
    ELSE TransitionToken(transitions[1]) \o " " \o JoinTokens(Tail(transitions))

serializeDaySchedule(day) == JoinTokens(SortByTime(day.transitions))

\* serializeWeeklySchedule keeping only the days that differ from the default
serializeWeeklySchedule_ChangedDaysOnly(w) ==
    [d \in {x \in DayKeys : w[x] # [transitions |-> <<[time |-> 0, temperature |-> 200]>>]} |->
        serializeDaySchedule(w[d])]

serializeWeeklySchedule(w) == [d \in DayKeys |-> serializeDaySchedule(w[d])]

\* the baseline temperature of the default schedule, in tenths of a degree
DefaultTemperature == 200

createEmptyWeeklySchedule ==
    [d \in DayKeys |-> [transitions |-> <<[time |-> 0, temperature |-> DefaultTemperature]>>]]

\* the transitions a wire token of the model's universe can denote
WireTransitions == {[time |-> 0, temperature |-> 200], [time |-> 360, temperature |-> 225]}

\* a day string of the model's universe holds between 1 and MaxWireTokens tokens
MaxWireTokens == 2

WireTransitionSeqs ==
    UNION {[1..n -> WireTransitions] : n \in 1..MaxWireTokens}

\* split on whitespace and parse each HH:mm/T token, keeping the order of the
\* tokens; Null stands for the FormatError thrown on a malformed token
parseDaySchedule(str) ==
    IF \E ts \in WireTransitionSeqs : JoinTokens(ts) = str
    THEN [transitions |-> CHOOSE ts \in WireTransitionSeqs : JoinTokens(ts) = str]
    ELSE Null

\* Null stands for the error thrown when a day fails to parse
parseWeeklySchedule(mqttSchedule) ==
    IF \E d \in DayKeys : parseDaySchedule(mqttSchedule[d]) = Null THEN Null
    ELSE [d \in DayKeys |-> parseDaySchedule(mqttSchedule[d])]

-----------------------------------------------------------------------------
(* models/schedule.ts: diff and payload *)

\* computeScheduleDiff comparing the day schedules themselves, not their strings
computeScheduleDiff_RawCompare(original, modified) ==
    LET changed == {d \in DayKeys : original[d] # modified[d]}
    IN  [changes     |-> [d \in changed |-> serializeDaySchedule(modified[d])],
         hasChanges  |-> changed # {},
         changedDays |-> SelectSeq(DAYS_OF_WEEK, LAMBDA d : d \in changed)]

\* changes: the Map day -> serialized string of the days that differ;
\* changedDays: its keys in insertion order, the order of DAYS_OF_WEEK
computeScheduleDiff(original, modified) ==
    LET changed == {d \in DayKeys :
                      serializeDaySchedule(original[d]) # serializeDaySchedule(modified[d])}
    IN  [changes     |-> [d \in changed |-> serializeDaySchedule(modified[d])],
         hasChanges  |-> changed # {},
         changedDays |-> SelectSeq(DAYS_OF_WEEK, LAMBDA d : d \in changed)]

PayloadKey(day) == "weekly_schedule_" \o day

buildPartialPayload(diff) ==
    [k \in {PayloadKey(d) : d \in DOMAIN diff.changes} |->
        diff.changes[CHOOSE d \in DOMAIN diff.changes : PayloadKey(d) = k]]

-----------------------------------------------------------------------------
(* services/ha-service.ts *)

INVALID_SENSOR_STATES == {"unavailable", "unknown", "none", "null", "", "n/a"}

\* String.prototype.toLowerCase on the state strings of the model's universe
ToLowerCase(s) ==
    CASE s = "Unavailable" -> "unavailable"
      [] s = "UNKNOWN" -> "unknown"
      [] s = "None" -> "none"
      [] s = "NULL" -> "null"
      [] s = "N/A" -> "n/a"
      [] OTHER -> s

isInvalidSensorState(state) == ToLowerCase(state) \in INVALID_SENSOR_STATES

validateScheduleStructure(s) ==
    /\ s # Null
    /\ \A i \in 1..Len(DAYS_OF_WEEK) :
          /\ DAYS_OF_WEEK[i] \in DOMAIN s
          /\ "transitions" \in DOMAIN s[DAYS_OF_WEEK[i]]

RECURSIVE Join(_, _)
\* Array.prototype.join
Join(parts, sep) ==
    IF parts = <<>> THEN ""
    ELSE IF Len(parts) = 1 THEN parts[1]
    ELSE parts[1] \o sep \o Join(Tail(parts), sep)

\* the entity id string of an id held as its dot-separated parts
EntityIdString(entityId) == Join(entityId, ".")

extractFriendlyName(entityId) ==
    IF Len(entityId) < 2 THEN EntityIdString(entityId)
    ELSE Join(Tail(entityId), ".")

deriveDaySensorEntityId(climateEntityId, day) ==
    "text." \o extractFriendlyName(climateEntityId) \o "_weekly_schedule_" \o day

entityExists(h, entityIdString) == entityIdString \in DOMAIN h

\* getScheduleFromSensor reading the default day for a day that is missing
getScheduleFromSensor_DefaultsMissing(h, climateEntityId) ==
    LET id(d) == deriveDaySensorEntityId(climateEntityId, d)
        missingDays == {d \in DayKeys : \/ id(d) \notin DOMAIN h
                                        \/ isInvalidSensorState(h[id(d)])}
    IN  parseWeeklySchedule([d \in DayKeys |->
            IF d \in missingDays THEN serializeDaySchedule(createEmptyWeeklySchedule[d])
            ELSE h[id(d)]])

\* Null when a day sensor is absent, holds an invalid state, or fails to parse
getScheduleFromSensor(h, climateEntityId) ==
    LET id(d) == deriveDaySensorEntityId(climateEntityId, d)
        missingDays == {d \in DayKeys : \/ id(d) \notin DOMAIN h
                                        \/ isInvalidSensorState(h[id(d)])}
    IN  IF missingDays # {} THEN Null
        ELSE parseWeeklySchedule([d \in DayKeys |-> h[id(d)]])

\* saveSchedule with the payload built from the whole week instead of the diff
saveSchedule_AllDays(entityId, original, modified) ==
    IF ~validateScheduleStructure(original) \/ ~validateScheduleStructure(modified)
    THEN [status |-> "error", error |-> "Invalid schedule"]
    ELSE LET diff == computeScheduleDiff(original, modified)
             week == serializeWeeklySchedule(modified)
         IN  IF ~diff.hasChanges THEN [status |-> "skipped"]
             ELSE [status  |-> "publish",
                   topic   |-> "zigbee2mqtt/" \o extractFriendlyName(entityId) \o "/set",
                   payload |-> [k \in {PayloadKey(d) : d \in DayKeys} |->
                                   week[CHOOSE d \in DayKeys : PayloadKey(d) = k]],
                   daysUpdated |-> diff.changedDays]

\* saveSchedule without the check for an empty diff
saveSchedule_NoSkip(entityId, original, modified) ==
    IF ~validateScheduleStructure(original) \/ ~validateScheduleStructure(modified)
    THEN [status |-> "error", error |-> "Invalid schedule"]
    ELSE LET diff == computeScheduleDiff(original, modified)
         IN  [status  |-> "publish",
              topic   |-> "zigbee2mqtt/" \o extractFriendlyName(entityId) \o "/set",
              payload |-> buildPartialPayload(diff),
              daysUpdated |-> diff.changedDays]

\* saveSchedule up to its only await: the result it returns without calling the
\* service (status error or skipped), or the call it issues (status publish)
saveSchedule(entityId, original, modified) ==
    IF ~validateScheduleStructure(original)
    THEN [status |-> "error",
          error |-> "Invalid original schedule: missing days or transitions array"]
    ELSE IF ~validateScheduleStructure(modified)
    THEN [status |-> "error",
          error |-> "Invalid modified schedule: missing days or transitions array"]
    ELSE LET diff == computeScheduleDiff(original, modified)
             friendlyName == extractFriendlyName(entityId)
         IN  IF ~diff.hasChanges THEN [status |-> "skipped"]
             ELSE IF friendlyName = ""
             THEN [status |-> "error",
                   error |-> "Invalid entity ID: cannot extract device name"]
             ELSE [status  |-> "publish",
                   topic   |-> "zigbee2mqtt/" \o friendlyName \o "/set",
                   payload |-> buildPartialPayload(diff),
                   daysUpdated |-> diff.changedDays]

-----------------------------------------------------------------------------
(* utils/time.ts and utils/validation.ts: the validator. Here a time string   *)
(* is the sequence of its characters, so that the pattern of parseTime is     *)
(* applied to what was typed.                                                  *)

DigitChars == <<"0", "1", "2", "3", "4", "5", "6", "7", "8", "9">>

IsDigitChar(c) == \E i \in 1..Len(DigitChars) : DigitChars[i] = c

\* parseInt of one decimal digit
DigitValue(c) == (CHOOSE i \in 1..Len(DigitChars) : DigitChars[i] = c) - 1

\* the string whose characters are chars
Text(chars) == Join(chars, "")

\* the characters of formatTime(hours, minutes) for minutes since midnight
TimeChars(minutes) ==
    LET h == minutes \div 60
        m == minutes % 60
    IN  <<Digit(h \div 10), Digit(h % 10), ":", Digit(m \div 10), Digit(m % 10)>>

\* Null stands for the Error thrown on a string that is not HH:mm or whose
\* hours or minutes are out of range
parseTime(time) ==
    IF ~(/\ Len(time) = 5
         /\ IsDigitChar(time[1]) /\ IsDigitChar(time[2])
         /\ time[3] = ":"
         /\ IsDigitChar(time[4]) /\ IsDigitChar(time[5]))
    THEN Null
    ELSE LET hours == 10 * DigitValue(time[1]) + DigitValue(time[2])
             minutes == 10 * DigitValue(time[4]) + DigitValue(time[5])
         IN  IF hours < 0 \/ hours > 23 THEN Null
             ELSE IF minutes < 0 \/ minutes > 59 THEN Null
             ELSE [hours |-> hours, minutes |-> minutes]

isValidTime(time) == parseTime(time) # Null

\* what a call that may throw hands back: the value, or the fact that it threw
Returns(value) == [throws |-> FALSE, value |-> value]

Throws == [throws |-> TRUE]

\* the minutes since midnight of a time string; throws where parseTime throws
timeToMinutes(time) ==
    LET parsed == parseTime(time)
    IN  IF parsed = Null THEN Throws ELSE Returns(parsed.hours * 60 + parsed.minutes)

\* minutesToTime accepting 1440
minutesToTimeChars_Inclusive(minutes) ==
    IF minutes < 0 \/ minutes > 1440 THEN Throws ELSE Returns(TimeChars(minutes))

\* minutesToTime with its range check, the string as its characters
minutesToTimeChars(minutes) ==
    IF minutes < 0 \/ minutes >= 1440 THEN Throws ELSE Returns(TimeChars(minutes))

\* the loop test of generateTimeOptions letting minutes = totalMinutes through
TimeOptionsLoopTest_Inclusive(minutes, totalMinutes) == minutes <= totalMinutes

\* the test of the for loop of generateTimeOptions
TimeOptionsLoopTest(minutes, totalMinutes) == minutes < totalMinutes

\* generateTimeOptions before the first test of its loop
TimeOptionsStart == [running |-> TRUE, minutes |-> 0, options |-> <<>>]

\* one test of the loop of generateTimeOptions and, when it passes, one run of
\* the body: loop holds the loop variable and the array built so far. A throw
\* of minutesToTime leaves the function.
generateTimeOptionsStep(stepMinutes, loop) ==
    LET totalMinutes == 24 * 60
    IN  IF TimeOptionsLoopTest(loop.minutes, totalMinutes)
        THEN LET time == minutesToTimeChars(loop.minutes)
             IN  IF time.throws THEN [running |-> FALSE, throws |-> TRUE]
                 ELSE [running |-> TRUE,
                       minutes |-> loop.minutes + stepMinutes,
                       options |-> Append(loop.options, time.value)]
        ELSE [running |-> FALSE, throws |-> FALSE, value |-> loop.options]

\* isValidTemperature with the range test only
isValidTemperature_RangeOnly(temp10) ==
    IF temp10 < 40 \/ temp10 > 350 THEN FALSE ELSE TRUE

\* temp10 is the temperature in tenths of a degree; doubled is temp * 2 in
\* tenths, an integer number of degrees exactly when it is a multiple of 10
isValidTemperature(temp10) ==
    IF temp10 < 40 \/ temp10 > 350 THEN FALSE
    ELSE LET doubled == temp10 * 2
         IN  doubled % 10 = 0

\* the text of a number held in tenths: String(20.5) = "20.5", String(-3) = "-3"
TenthsText(t10) ==
    IF t10 < 0 THEN "-" \o TemperatureString(0 - t10) ELSE TemperatureString(t10)

validateTransition(transition) ==
    LET timeErrors ==
            IF ~isValidTime(transition.time)
            THEN <<"Invalid time format: " \o Text(transition.time)
                      \o ". Expected HH:mm (00:00 - 23:59)">>
            ELSE <<>>
        temperatureErrors ==
            IF ~isValidTemperature(transition.temperature)
            THEN IF transition.temperature < 40 \/ transition.temperature > 350
                 THEN <<"Temperature " \o TenthsText(transition.temperature)
                           \o "°C is out of range. Must be 4-35°C">>
                 ELSE <<"Temperature " \o TenthsText(transition.temperature)
                           \o "°C is invalid. Must be in 0.5°C steps">>
            ELSE <<>>
        errors == timeErrors \o temperatureErrors
    IN  [valid |-> Len(errors) = 0, errors |-> errors]


\* the string functions apply to each element of a list of messages
PrefixEach(prefix, errors) == [i \in 1..Len(errors) |-> prefix \o errors[i]]

RECURSIVE TransitionErrors(_, _)
\* the forEach over the transitions: the errors of transitions index..length,
\* each prefixed with the 1-based position of its transition
TransitionErrors(transitions, index) ==
    IF index > Len(transitions) THEN <<>>
    ELSE LET r == validateTransition(transitions[index])
         IN  (IF ~r.valid
              THEN PrefixEach("Transition " \o NumberToString(index) \o ": ", r.errors)
              ELSE <<>>)
             \o TransitionErrors(transitions, index + 1)

RECURSIVE ChronologyErrors(_, _)
\* the loop over adjacent pairs, from pair (i - 1, i) on
ChronologyErrors(transitions, i) ==
    IF i > Len(transitions) THEN <<>>
    ELSE LET prevTime == transitions[i - 1].time
             currTime == transitions[i].time
             rest == ChronologyErrors(transitions, i + 1)
         IN  IF ~isValidTime(prevTime) \/ ~isValidTime(currTime) THEN rest
             ELSE LET prevMinutes == parseTime(prevTime).hours * 60 + parseTime(prevTime).minutes
                      currMinutes == parseTime(currTime).hours * 60 + parseTime(currTime).minutes
                  IN  IF currMinutes <= prevMinutes
                      THEN <<"Transitions must be in chronological order: " \o Text(prevTime)
                                \o " should come before " \o Text(currTime)>> \o rest
                      ELSE rest

\* validateDaySchedule returning at the duplicate-times error, before the
\* check of the chronological order
validateDaySchedule_StopsAtDuplicate(daySchedule) ==
    LET transitions == daySchedule.transitions
    IN  IF Len(transitions) = 0
        THEN [valid |-> FALSE, errors |-> <<"Day schedule must have at least 1 transition">>]
        ELSE LET duplicates ==
                     Len(transitions) # Cardinality({transitions[i].time : i \in 1..Len(transitions)})
                 errors ==
                     (IF Len(transitions) > 6
                      THEN <<"Too many transitions: " \o NumberToString(Len(transitions))
                                \o ". Maximum is 6 per day">>
                      ELSE <<>>)
                     \o (IF transitions[1].time # <<"0", "0", ":", "0", "0">>
                         THEN <<"First transition must be at 00:00, found "
                                   \o Text(transitions[1].time)>>
                         ELSE <<>>)
                     \o TransitionErrors(transitions, 1)
                     \o (IF duplicates
                         THEN <<"Duplicate transition times found. Each time must be unique">>
                         ELSE ChronologyErrors(transitions, 2))
             IN  [valid |-> Len(errors) = 0, errors |-> errors]

\* validateDaySchedule without the check of the first transition's time
validateDaySchedule_NoFirstCheck(daySchedule) ==
    LET transitions == daySchedule.transitions
    IN  IF Len(transitions) = 0
        THEN [valid |-> FALSE, errors |-> <<"Day schedule must have at least 1 transition">>]
        ELSE LET errors ==
                     (IF Len(transitions) > 6
                      THEN <<"Too many transitions: " \o NumberToString(Len(transitions))
                                \o ". Maximum is 6 per day">>
                      ELSE <<>>)
                     \o TransitionErrors(transitions, 1)
                     \o (IF Len(transitions) # Cardinality({transitions[i].time : i \in 1..Len(transitions)})
                         THEN <<"Duplicate transition times found. Each time must be unique">>
                         ELSE <<>>)
                     \o ChronologyErrors(transitions, 2)
             IN  [valid |-> Len(errors) = 0, errors |-> errors]

validateDaySchedule(daySchedule) ==
    LET transitions == daySchedule.transitions
    IN  IF Len(transitions) = 0
        THEN [valid |-> FALSE, errors |-> <<"Day schedule must have at least 1 transition">>]
        ELSE LET errors ==
                     (IF Len(transitions) > 6
                      THEN <<"Too many transitions: " \o NumberToString(Len(transitions))
                                \o ". Maximum is 6 per day">>
                      ELSE <<>>)
                     \o (IF transitions[1].time # <<"0", "0", ":", "0", "0">>
                         THEN <<"First transition must be at 00:00, found "
                                   \o Text(transitions[1].time)>>
                         ELSE <<>>)
                     \o TransitionErrors(transitions, 1)
                     \o (IF Len(transitions) # Cardinality({transitions[i].time : i \in 1..Len(transitions)})
                         THEN <<"Duplicate transition times found. Each time must be unique">>
                         ELSE <<>>)
                     \o ChronologyErrors(transitions, 2)
             IN  [valid |-> Len(errors) = 0, errors |-> errors]

\* day.charAt(0).toUpperCase() + day.slice(1) on the seven day names
Capitalize(day) ==
    CASE day = "sunday" -> "Sunday"
      [] day = "monday" -> "Monday"
      [] day = "tuesday" -> "Tuesday"
      [] day = "wednesday" -> "Wednesday"
      [] day = "thursday" -> "Thursday"
      [] day = "friday" -> "Friday"
      [] day = "saturday" -> "Saturday"

RECURSIVE WeekErrors(_, _, _)
\* the forEach over days: the errors of days[i..], each prefixed with its day
WeekErrors(weekSchedule, days, i) ==
    IF i > Len(days) THEN <<>>
    ELSE LET r == validateDaySchedule(weekSchedule[days[i]])
         IN  (IF ~r.valid THEN PrefixEach(Capitalize(days[i]) \o ": ", r.errors) ELSE <<>>)
             \o WeekErrors(weekSchedule, days, i + 1)

\* validateWeeklySchedule visiting the days in reverse order
validateWeeklySchedule_Reversed(weekSchedule) ==
    LET days == <<"saturday", "friday", "thursday", "wednesday", "tuesday", "monday", "sunday">>
        errors == WeekErrors(weekSchedule, days, 1)
    IN  [valid |-> Len(errors) = 0, errors |-> errors]

validateWeeklySchedule(weekSchedule) ==
    LET days == <<"sunday", "monday", "tuesday", "wednesday", "thursday", "friday", "saturday">>
        errors == WeekErrors(weekSchedule, days, 1)
    IN  [valid |-> Len(errors) = 0, errors |-> errors]

\* a day schedule of the card, its times written out as the validator reads them
DayAsTyped(day) ==
    [transitions |-> [i \in 1..Len(day.transitions) |->
                         [time |-> TimeChars(day.transitions[i].time),
                          temperature |-> day.transitions[i].temperature]]]

-----------------------------------------------------------------------------
(* services/mqtt-sanitizer.ts. A string is the sequence of its characters; a  *)
(* nullable string is [null |-> TRUE] or [null |-> FALSE, chars |-> ...].     *)

\* the null character, as one element of a character sequence
NulChar == "<NUL>"

\* the characters matched by MQTT_FORBIDDEN_CHARS_REGEX
MQTT_FORBIDDEN_CHARS == {"+", "#", "/", NulChar}

SAFE_REPLACEMENT == "_"

MAX_TOPIC_SEGMENT_LENGTH == 256

\* the white space String.prototype.trim removes, among the characters of the model
IsWhiteSpace(c) == c \in {" ", "\t"}

RECURSIVE TrimStart(_)
TrimStart(chars) ==
    IF chars # <<>> /\ IsWhiteSpace(Head(chars)) THEN TrimStart(Tail(chars)) ELSE chars

RECURSIVE TrimEnd(_)
TrimEnd(chars) ==
    IF chars # <<>> /\ IsWhiteSpace(chars[Len(chars)])
    THEN TrimEnd(SubSeq(chars, 1, Len(chars) - 1)) ELSE chars

\* String.prototype.trim
Trim(chars) == TrimEnd(TrimStart(chars))

\* replace(MQTT_FORBIDDEN_CHARS_REGEX, SAFE_REPLACEMENT)
ReplaceForbidden(chars) ==
    [i \in 1..Len(chars) |->
        IF chars[i] \in MQTT_FORBIDDEN_CHARS THEN SAFE_REPLACEMENT ELSE chars[i]]

\* the value field of the SanitizationResult
sanitizeMqttTopicSegment(input, fallback) ==
    IF input.null THEN fallback
    ELSE LET trimmed == Trim(input.chars)
         IN  IF Len(trimmed) = 0 THEN fallback
             ELSE LET sanitized == ReplaceForbidden(trimmed)
                  IN  IF Len(sanitized) > MAX_TOPIC_SEGMENT_LENGTH
                      THEN SubSeq(sanitized, 1, MAX_TOPIC_SEGMENT_LENGTH)
                      ELSE sanitized

\* the wasModified field of the SanitizationResult: true on both fallback
\* returns, truncated !== input otherwise
sanitizeWasModified(input, fallback) ==
    IF input.null THEN TRUE
    ELSE IF Len(Trim(input.chars)) = 0 THEN TRUE
    ELSE sanitizeMqttTopicSegment(input, fallback) # input.chars

\* isValidMqttTopicSegment without its test for forbidden characters
isValidMqttTopicSegment_NoForbiddenTest(input) ==
    IF input.null \/ Len(Trim(input.chars)) = 0 THEN FALSE
    ELSE IF Len(input.chars) > MAX_TOPIC_SEGMENT_LENGTH THEN FALSE
    ELSE TRUE

\* isValidMqttTopicSegment: MQTT_FORBIDDEN_CHARS_TEST_REGEX.test(input) finds a
\* forbidden character anywhere in the untrimmed input
isValidMqttTopicSegment(input) ==
    IF input.null \/ Len(Trim(input.chars)) = 0 THEN FALSE
    ELSE IF Len(input.chars) > MAX_TOPIC_SEGMENT_LENGTH THEN FALSE
    ELSE ~(\E k \in 1..Len(input.chars) : input.chars[k] \in MQTT_FORBIDDEN_CHARS)

-----------------------------------------------------------------------------
(* The inputs of the model *)

\* the climate entities a configuration can name
Trv1 == <<"climate", "trv1">>
Trv2 == <<"climate", "trv2">>
Entities == {Trv1, Trv2}

\* the day schedules of the model; DayB2 is DayB with its transitions permuted
DayA == [transitions |-> <<[time |-> 0, temperature |-> 200]>>]
DayB == [transitions |-> <<[time |-> 0, temperature |-> 200], [time |-> 360, temperature |-> 225]>>]
DayB2 == [transitions |-> <<[time |-> 360, temperature |-> 225], [time |-> 0, temperature |-> 200]>>]

\* the schedule-changed events the editor raises: <<day, day schedule>>
ScheduleChangedEvents ==
    {<<"monday", DayA>>, <<"monday", DayB2>>, <<"tuesday", DayB>>}

\* the days whose editor raises copy-requested
CopySources == {"monday"}

\* the target days a copy-confirmed event carries: the dialog offers every day
\* but the source and raises no event for an empty selection
CopyTargets == {<<"tuesday">>, <<"tuesday", "wednesday">>, <<"saturday", "sunday">>}

\* the entities the platform knows; climate.trv2 is not among them
KnownEntities == {Trv1}

\* hass.states at the start: the known climate entities and all their day
\* sensors exist, every day holding the one-transition schedule
InitialStates ==
    LET keys == {EntityIdString(e) : e \in KnownEntities}
                \cup {deriveDaySensorEntityId(e, d) : e \in KnownEntities, d \in DayKeys}
    IN  [k \in keys |->
            IF k \in {EntityIdString(e) : e \in KnownEntities} THEN "heat"
            ELSE serializeDaySchedule(DayA)]

\* the state changes the platform reports: <<entity, day, new state>>
SensorUpdates ==
    {<<Trv1, "monday", serializeDaySchedule(DayA)>>,
     <<Trv1, "monday", serializeDaySchedule(DayB)>>,
     <<Trv1, "monday", "Unavailable">>,
     <<Trv1, "tuesday", serializeDaySchedule(DayB)>>,
     <<Trv1, "tuesday", "bogus">>}

\* the day sensors that can disappear from the platform: <<entity, day>>
SensorRemovals == {<<Trv1, "monday">>}

\* h with entity id k removed
Without(h, k) == [x \in DOMAIN h \ {k} |-> h[x]]

\* h with entity id k present in state v
WithState(h, k, v) == [x \in DOMAIN h \cup {k} |-> IF x = k THEN v ELSE h[x]]

\* the hass.states the platform can hand over next: unchanged, or one day
\* sensor changed, added or removed
NextStates(h) ==
    {h}
    \cup {WithState(h, deriveDaySensorEntityId(u[1], u[2]), u[3]) : u \in SensorUpdates}
    \cup {Without(h, deriveDaySensorEntityId(r[1], r[2])) : r \in SensorRemovals}

-----------------------------------------------------------------------------
(* trvzb-scheduler-card.ts: helpers of TRVZBSchedulerCard *)

\* the marker the hash uses for a missing sensor ('\0' in the code)
MissingMarker == "<NUL>"

\* JSON.stringify of the array of day states is modelled by the array itself
computeSensorStateHash(h, entityId) ==
    [i \in 1..Len(DAYS_OF_WEEK) |->
        LET k == deriveDaySensorEntityId(entityId, DAYS_OF_WEEK[i])
        IN  IF k \in DOMAIN h THEN h[k] ELSE MissingMarker]

\* _allDaySensorsMatch returning true as soon as one day matches
allDaySensorsMatch_AnyDay(h, entityId, pendingSchedule) ==
    \E i \in 1..Len(DAYS_OF_WEEK) :
        LET day == DAYS_OF_WEEK[i]
            k == deriveDaySensorEntityId(entityId, day)
        IN  /\ k \in DOMAIN h
            /\ day \in DOMAIN pendingSchedule
            /\ h[k] = pendingSchedule[day]

allDaySensorsMatch(h, entityId, pendingSchedule) ==
    \A i \in 1..Len(DAYS_OF_WEEK) :
        LET day == DAYS_OF_WEEK[i]
            k == deriveDaySensorEntityId(entityId, day)
        IN  /\ k \in DOMAIN h
            /\ day \in DOMAIN pendingSchedule
            /\ h[k] = pendingSchedule[day]

\* _hasDaySensorChanges without the test for a sensor that disappeared
hasDaySensorChanges_NoDisappearance(newHass, entityId, oldHass) ==
    IF computeSensorStateHash(oldHass, entityId) = computeSensorStateHash(newHass, entityId)
    THEN FALSE
    ELSE \E i \in 1..Len(DAYS_OF_WEEK) :
            LET k == deriveDaySensorEntityId(entityId, DAYS_OF_WEEK[i])
                old == k \in DOMAIN oldHass
                new == k \in DOMAIN newHass
            IN  \/ ~old /\ new /\ ~isInvalidSensorState(newHass[k])
                \/ old /\ new /\ oldHass[k] # newHass[k]

hasDaySensorChanges(newHass, entityId, oldHass) ==
    IF computeSensorStateHash(oldHass, entityId) = computeSensorStateHash(newHass, entityId)
    THEN FALSE
    ELSE \E i \in 1..Len(DAYS_OF_WEEK) :
            LET k == deriveDaySensorEntityId(entityId, DAYS_OF_WEEK[i])
                old == k \in DOMAIN oldHass
                new == k \in DOMAIN newHass
            IN  \/ ~old /\ new /\ ~isInvalidSensorState(newHass[k])
                \/ old /\ ~new
                \/ old /\ new /\ oldHass[k] # newHass[k]

\* the ids of the missing day sensors, in the order of DAYS_OF_WEEK
getMissingSensors(h, entityId) ==
    SelectSeq([i \in 1..Len(DAYS_OF_WEEK) |-> deriveDaySensorEntityId(entityId, DAYS_OF_WEEK[i])],
              LAMBDA k : ~entityExists(h, k))

\* a structural copy; the code dereferences its argument, so it throws on null
deepCopySchedule(s) ==
    [d \in DayKeys |->
        [transitions |->
            [i \in 1..Len(s[d].transitions) |->
                [time |-> s[d].transitions[i].time,
                 temperature |-> s[d].transitions[i].temperature]]]]

\* _deepCopySchedule returning its argument instead of a copy
deepCopySharedDays_Alias == DayKeys

\* the days of a copy made by _deepCopySchedule whose day object, transitions
\* array or transition objects are those of its source: none, the copy is
\* rebuilt at every level
deepCopySharedDays == {}

\* _clearPendingSave leaving the save identifier in place
clearPendingSave_KeepsId ==
    /\ pendingSaveSchedule' = Null
    /\ pendingSaveId' = pendingSaveId
    /\ pendingSaveTimeoutId' = 0
    /\ timers' = IF pendingSaveTimeoutId # 0 THEN timers \ {pendingSaveTimeoutId} ELSE timers

\* _clearPendingSave: the new values of the pending bookkeeping
clearPendingSave ==
    /\ pendingSaveSchedule' = Null
    /\ pendingSaveId' = 0
    /\ pendingSaveTimeoutId' = 0
    /\ timers' = IF pendingSaveTimeoutId # 0 THEN timers \ {pendingSaveTimeoutId} ELSE timers

\* _loadSchedule whose fallback to the default schedule leaves the original
\* of the earlier Load in place
loadSchedule_FallbackKeepsOriginal(h, entityId) ==
    LET cur == [error |-> NullString, schedule |-> schedule,
                originalSchedule |-> originalSchedule,
                hasUnsavedChanges |-> hasUnsavedChanges]
        missingSensors == getMissingSensors(h, entityId)
        loaded == getScheduleFromSensor(h, entityId)
    IN  IF ~entityExists(h, EntityIdString(entityId))
        THEN [cur EXCEPT !.error = "Climate entity not found: " \o EntityIdString(entityId),
                         !.schedule = Null]
        ELSE IF Len(missingSensors) > 0
        THEN [cur EXCEPT !.error = "Schedule sensors not found: " \o Join(missingSensors, ", "),
                         !.schedule = Null]
        ELSE IF loaded # Null
        THEN [cur EXCEPT !.schedule = loaded,
                         !.originalSchedule = deepCopySchedule(loaded),
                         !.hasUnsavedChanges = FALSE]
        ELSE [cur EXCEPT !.schedule = createEmptyWeeklySchedule,
                         !.hasUnsavedChanges = TRUE,
                         !.error = "No valid schedule found on sensors. Using default schedule."]

\* _loadSchedule whose fallback to the default schedule does not mark it unsaved
loadSchedule_FallbackNotUnsaved(h, entityId) ==
    LET cur == [error |-> NullString, schedule |-> schedule,
                originalSchedule |-> originalSchedule,
                hasUnsavedChanges |-> hasUnsavedChanges]
        missingSensors == getMissingSensors(h, entityId)
        loaded == getScheduleFromSensor(h, entityId)
    IN  IF ~entityExists(h, EntityIdString(entityId))
        THEN [cur EXCEPT !.error = "Climate entity not found: " \o EntityIdString(entityId),
                         !.schedule = Null]
        ELSE IF Len(missingSensors) > 0
        THEN [cur EXCEPT !.error = "Schedule sensors not found: " \o Join(missingSensors, ", "),
                         !.schedule = Null]
        ELSE IF loaded # Null
        THEN [cur EXCEPT !.schedule = loaded,
                         !.originalSchedule = deepCopySchedule(loaded),
                         !.hasUnsavedChanges = FALSE]
        ELSE [cur EXCEPT !.schedule = createEmptyWeeklySchedule,
                         !.originalSchedule = deepCopySchedule(createEmptyWeeklySchedule),
                         !.hasUnsavedChanges = FALSE,
                         !.error = "No valid schedule found on sensors. Using default schedule."]

\* _loadSchedule: the values it leaves in _error, _schedule, _originalSchedule
\* and _hasUnsavedChanges
loadSchedule(h, entityId) ==
    LET cur == [error |-> NullString, schedule |-> schedule,
                originalSchedule |-> originalSchedule,
                hasUnsavedChanges |-> hasUnsavedChanges]
        missingSensors == getMissingSensors(h, entityId)
        loaded == getScheduleFromSensor(h, entityId)
    IN  IF ~entityExists(h, EntityIdString(entityId))
        THEN [cur EXCEPT !.error = "Climate entity not found: " \o EntityIdString(entityId),
                         !.schedule = Null]
        ELSE IF Len(missingSensors) > 0
        THEN [cur EXCEPT !.error = "Schedule sensors not found: " \o Join(missingSensors, ", "),
                         !.schedule = Null]
        ELSE IF loaded # Null
        THEN [cur EXCEPT !.schedule = loaded,
                         !.originalSchedule = deepCopySchedule(loaded),
                         !.hasUnsavedChanges = FALSE]
        ELSE [cur EXCEPT !.schedule = createEmptyWeeklySchedule,
                         !.originalSchedule = deepCopySchedule(createEmptyWeeklySchedule),
                         !.hasUnsavedChanges = TRUE,
                         !.error = "No valid schedule found on sensors. Using default schedule."]

-----------------------------------------------------------------------------
(* trvzb-scheduler-card.ts: the handlers of TRVZBSchedulerCard *)

\* the card after construction and its first setConfig
CardInit ==
    /\ entity \in {Trv1}
    /\ hass = InitialStates
    /\ schedule = Null
    /\ originalSchedule = Null
    /\ saving = FALSE
    /\ error = NullString
    /\ hasUnsavedChanges = FALSE
    /\ previousEntityId = Null
    /\ pendingSaveSchedule = Null
    /\ pendingSaveTimeoutId = 0
    /\ pendingSaveId = 0
    /\ timers = {}
    /\ inFlight = <<>>
    /\ last = [op |-> "constructed", branch |-> ""]
    /\ copySourceDay = NullString
    /\ sharedDays = {}

Init ==
    /\ CardInit
    /\ pureCall = NoCall
    /\ pureResult = <<>>

\* setConfig: the card is configured for an entity
setConfig(e) ==
    /\ entity' = e
    /\ last' = [op |-> "setConfig", branch |-> ""]
    /\ UNCHANGED <<hass, schedule, originalSchedule, saving, error, hasUnsavedChanges,
                   previousEntityId, pendingSaveSchedule, pendingSaveTimeoutId,
                   pendingSaveId, timers, inFlight, copySourceDay, sharedDays, pureVars>>

\* the assignments of one run of _loadSchedule
runLoadSchedule(h) ==
    LET r == loadSchedule(h, entity)
    IN  /\ error' = r.error
        /\ schedule' = r.schedule
        /\ originalSchedule' = r.originalSchedule
        /\ hasUnsavedChanges' = r.hasUnsavedChanges
        /\ sharedDays' = IF r.schedule = Null THEN {} ELSE deepCopySharedDays

\* updated() without its early return while a save is in flight
updatedBranch_NoSavingCheck(newStates) ==
    IF entity # previousEntityId THEN "entityChanged"
    ELSE IF pendingSaveSchedule # Null
    THEN IF allDaySensorsMatch(newStates, entity, pendingSaveSchedule)
         THEN "confirmed" ELSE "pending"
    ELSE IF hasDaySensorChanges(newStates, entity, hass) THEN "reload"
    ELSE "unchanged"

\* the branch updated() takes when the hass object changed to one with states
\* newStates: the order of its checks
updatedBranch(newStates) ==
    IF entity # previousEntityId THEN "entityChanged"
    ELSE IF saving THEN "saving"
    ELSE IF pendingSaveSchedule # Null
    THEN IF allDaySensorsMatch(newStates, entity, pendingSaveSchedule)
         THEN "confirmed" ELSE "pending"
    ELSE IF hasDaySensorChanges(newStates, entity, hass) THEN "reload"
    ELSE "unchanged"

\* updated(changedProps) with 'hass' among the changed properties: the platform
\* hands the card a hass object whose states are newStates
updated(newStates) ==
    LET branch == updatedBranch(newStates)
    IN  /\ hass' = newStates
        /\ last' = [op |-> "updated", branch |-> branch]
        /\ UNCHANGED <<entity, saving, inFlight, copySourceDay, pureVars>>
        /\ previousEntityId' = IF branch = "entityChanged" THEN entity ELSE previousEntityId
        /\ IF branch \in {"entityChanged", "reload"}
           THEN runLoadSchedule(newStates)
           ELSE UNCHANGED <<error, schedule, originalSchedule, hasUnsavedChanges, sharedDays>>
        /\ IF branch = "confirmed"
           THEN clearPendingSave
           ELSE UNCHANGED <<pendingSaveSchedule, pendingSaveTimeoutId, pendingSaveId, timers>>

\* _handleScheduleChanged dropping an event whose day schedule fails validation
handleScheduleChanged_Validates(day, daySchedule) ==
    /\ UNCHANGED <<entity, hass, originalSchedule, saving, error, previousEntityId,
                   pendingSaveSchedule, pendingSaveTimeoutId, pendingSaveId, timers, inFlight,
                   copySourceDay, pureVars>>
    /\ IF schedule = Null \/ ~validateDaySchedule(DayAsTyped(daySchedule)).valid
       THEN /\ last' = [op |-> "scheduleChanged", branch |-> "ignored"]
            /\ UNCHANGED <<schedule, hasUnsavedChanges, sharedDays>>
       ELSE /\ schedule' = [d \in DOMAIN schedule \cup {day} |->
                               IF d = day THEN daySchedule ELSE schedule[d]]
            /\ hasUnsavedChanges' = TRUE
            /\ sharedDays' = sharedDays \ {day}
            /\ last' = [op |-> "scheduleChanged", branch |-> "applied"]

\* _handleScheduleChanged: a schedule-changed event for one day
handleScheduleChanged(day, daySchedule) ==
    /\ UNCHANGED <<entity, hass, originalSchedule, saving, error, previousEntityId,
                   pendingSaveSchedule, pendingSaveTimeoutId, pendingSaveId, timers, inFlight,
                   copySourceDay, pureVars>>
    /\ IF schedule = Null
       THEN /\ last' = [op |-> "scheduleChanged", branch |-> "ignored"]
            /\ UNCHANGED <<schedule, hasUnsavedChanges, sharedDays>>
       ELSE /\ schedule' = [d \in DOMAIN schedule \cup {day} |->
                               IF d = day THEN daySchedule ELSE schedule[d]]
            /\ hasUnsavedChanges' = TRUE
            /\ sharedDays' = sharedDays \ {day}
            /\ last' = [op |-> "scheduleChanged", branch |-> "applied"]

\* _handleCopyRequested: the editor asks for the copy dialog
handleCopyRequested(day) ==
    /\ copySourceDay' = day
    /\ last' = [op |-> "copyRequested", branch |-> ""]
    /\ UNCHANGED <<entity, hass, schedule, originalSchedule, saving, error, hasUnsavedChanges,
                   previousEntityId, pendingSaveSchedule, pendingSaveTimeoutId, pendingSaveId,
                   timers, inFlight, sharedDays, pureVars>>

\* _handleDialogClosed: the copy dialog is dismissed
handleDialogClosed ==
    /\ copySourceDay' = NullString
    /\ last' = [op |-> "dialogClosed", branch |-> ""]
    /\ UNCHANGED <<entity, hass, schedule, originalSchedule, saving, error, hasUnsavedChanges,
                   previousEntityId, pendingSaveSchedule, pendingSaveTimeoutId, pendingSaveId,
                   timers, inFlight, sharedDays, pureVars>>

\* the days named by a list of target days
TargetSet(targetDays) == {targetDays[i] : i \in 1..Len(targetDays)}

\* the loop of _handleCopyConfirmed stopping after the first target day
copyToTargets_FirstOnly(week, sourceDay, targetDays) ==
    LET sourceSchedule == week[sourceDay]
    IN  [d \in DayKeys |->
            IF d = targetDays[1]
            THEN [transitions |->
                     [i \in 1..Len(sourceSchedule.transitions) |->
                         [time |-> sourceSchedule.transitions[i].time,
                          temperature |-> sourceSchedule.transitions[i].temperature]]]
            ELSE week[d]]

\* the loop of _handleCopyConfirmed: a spread copy of the week in which every
\* target day holds a copy of the transitions of the source day
copyToTargets(week, sourceDay, targetDays) ==
    LET sourceSchedule == week[sourceDay]
    IN  [d \in DayKeys |->
            IF d \in TargetSet(targetDays)
            THEN [transitions |->
                     [i \in 1..Len(sourceSchedule.transitions) |->
                         [time |-> sourceSchedule.transitions[i].time,
                          temperature |-> sourceSchedule.transitions[i].temperature]]]
            ELSE week[d]]

\* _handleCopyConfirmed without its assignment of the unsaved-changes flag
handleCopyConfirmed_KeepsFlag(targetDays) ==
    /\ UNCHANGED <<entity, hass, originalSchedule, saving, error, previousEntityId,
                   pendingSaveSchedule, pendingSaveTimeoutId, pendingSaveId, timers, inFlight,
                   pureVars>>
    /\ IF schedule = Null \/ copySourceDay = NullString
       THEN /\ last' = [op |-> "copyConfirmed", branch |-> "ignored", targetDays |-> targetDays]
            /\ UNCHANGED <<schedule, hasUnsavedChanges, copySourceDay, sharedDays>>
       ELSE /\ schedule' = copyToTargets(schedule, copySourceDay, targetDays)
            /\ UNCHANGED hasUnsavedChanges
            /\ copySourceDay' = NullString
            /\ sharedDays' = sharedDays \ TargetSet(targetDays)
            /\ last' = [op |-> "copyConfirmed", branch |-> "applied", targetDays |-> targetDays]

\* _handleCopyConfirmed: the copy dialog confirms a copy to targetDays
handleCopyConfirmed(targetDays) ==
    /\ UNCHANGED <<entity, hass, originalSchedule, saving, error, previousEntityId,
                   pendingSaveSchedule, pendingSaveTimeoutId, pendingSaveId, timers, inFlight,
                   pureVars>>
    /\ IF schedule = Null \/ copySourceDay = NullString
       THEN /\ last' = [op |-> "copyConfirmed", branch |-> "ignored", targetDays |-> targetDays]
            /\ UNCHANGED <<schedule, hasUnsavedChanges, copySourceDay, sharedDays>>
       ELSE /\ schedule' = copyToTargets(schedule, copySourceDay, targetDays)
            /\ hasUnsavedChanges' = TRUE
            /\ copySourceDay' = NullString
            /\ sharedDays' = sharedDays \ TargetSet(targetDays)
            /\ last' = [op |-> "copyConfirmed", branch |-> "applied", targetDays |-> targetDays]

\* the values Date.now() can return: the wall clock is an input of the card
\* (two reads can fall into the same millisecond, and the clock can be set back)
DateNow == 1..MaxNow

\* _saveSchedule leaving the timer of the previous save armed
timersAfterClearTimeout_KeepsTimer == timers

\* the armed timers once _saveSchedule has cancelled the timer of the previous
\* save (clearTimeout of _pendingSaveTimeoutId when it is set)
timersAfterClearTimeout ==
    IF pendingSaveTimeoutId # 0 THEN timers \ {pendingSaveTimeoutId} ELSE timers

\* the first guard of _saveSchedule without its test of the saving flag
saveIgnored_NoSavingTest == schedule = Null

\* the first guard of _saveSchedule (hass and config.entity are always set here)
saveIgnored == schedule = Null \/ saving

\* serializeWeeklySchedule fails on a week that holds a transition whose time
\* the time codec rejects
serializeWeeklyScheduleThrows(w) ==
    \E d \in DayKeys : \E i \in 1..Len(w[d].transitions) :
        minutesToTimeChars(w[d].transitions[i].time).throws

\* _saveSchedule up to the completion of its await. When saveSchedule returns
\* without calling the service (skipped, error) the awaited promise is already
\* resolved and the rest of the handler runs in the same task, before any other
\* event; when it calls the service the handler is suspended until
\* callServiceResolves or callServiceRejects.
saveScheduleHandler ==
    /\ UNCHANGED <<entity, hass, previousEntityId, schedule, copySourceDay, sharedDays, pureVars>>
    /\ IF saveIgnored
       THEN /\ last' = [op |-> "save", branch |-> "ignored"]
            /\ UNCHANGED <<originalSchedule, saving, error, hasUnsavedChanges,
                           pendingSaveSchedule, pendingSaveTimeoutId, pendingSaveId,
                           timers, inFlight>>
       ELSE IF originalSchedule = Null
       THEN /\ error' = "Cannot save: no original schedule loaded. Please reload the card."
            /\ last' = [op |-> "save", branch |-> "noOriginal"]
            /\ UNCHANGED <<originalSchedule, saving, hasUnsavedChanges,
                           pendingSaveSchedule, pendingSaveTimeoutId, pendingSaveId,
                           timers, inFlight>>
       ELSE \E saveId \in DateNow :
            LET result == saveSchedule(entity, originalSchedule, schedule)
                cleared == timersAfterClearTimeout
            IN  /\ UNCHANGED originalSchedule
                /\ CASE serializeWeeklyScheduleThrows(schedule) ->
                           \* the snapshot is taken before the try block: the
                           \* exception leaves the handler after the flag, the
                           \* timer and the identifier were written
                           /\ saving' = TRUE
                           /\ error' = NullString
                           /\ pendingSaveId' = saveId
                           /\ pendingSaveTimeoutId' = 0
                           /\ timers' = cleared
                           /\ last' = [op |-> "save", branch |-> "threw"]
                           /\ UNCHANGED <<pendingSaveSchedule, hasUnsavedChanges, inFlight>>
                     [] result.status = "publish" ->
                           /\ saving' = TRUE
                           /\ error' = NullString
                           /\ pendingSaveId' = saveId
                           /\ pendingSaveSchedule' = serializeWeeklySchedule(schedule)
                           /\ pendingSaveTimeoutId' = saveId
                           /\ timers' = cleared \cup {saveId}
                           /\ inFlight' = Append(inFlight, [topic |-> result.topic,
                                                             payload |-> result.payload])
                           /\ last' = [op |-> "save", branch |-> "publish"]
                           /\ UNCHANGED hasUnsavedChanges
                     [] result.status = "skipped" ->
                           /\ saving' = FALSE
                           /\ error' = NullString
                           /\ hasUnsavedChanges' = FALSE
                           /\ pendingSaveSchedule' = Null
                           /\ pendingSaveId' = 0
                           /\ pendingSaveTimeoutId' = 0
                           /\ timers' = cleared
                           /\ last' = [op |-> "save", branch |-> "skipped"]
                           /\ UNCHANGED inFlight
                     [] result.status = "error" ->
                           /\ saving' = FALSE
                           /\ error' = result.error
                           /\ pendingSaveSchedule' = Null
                           /\ pendingSaveId' = 0
                           /\ pendingSaveTimeoutId' = 0
                           /\ timers' = cleared
                           /\ last' = [op |-> "save", branch |-> "error"]
                           /\ UNCHANGED <<hasUnsavedChanges, inFlight>>

\* hass.callService resolves: saveSchedule returns status success and
\* _saveSchedule resumes in its try block
callServiceResolves ==
    /\ inFlight # <<>>
    /\ inFlight' = Tail(inFlight)
    /\ saving' = FALSE
    /\ UNCHANGED <<entity, hass, previousEntityId, schedule, copySourceDay, pureVars>>
    /\ IF schedule # Null
       THEN /\ originalSchedule' = deepCopySchedule(schedule)
            /\ sharedDays' = deepCopySharedDays
            /\ hasUnsavedChanges' = FALSE
            /\ error' = NullString
            /\ last' = [op |-> "saveDone", branch |-> "success"]
            /\ UNCHANGED <<pendingSaveSchedule, pendingSaveTimeoutId, pendingSaveId, timers>>
       ELSE \* _deepCopySchedule(null) throws a TypeError, caught by the catch block
            /\ error' = "TypeError"
            /\ clearPendingSave
            /\ last' = [op |-> "saveDone", branch |-> "threw"]
            /\ UNCHANGED <<originalSchedule, hasUnsavedChanges, sharedDays>>

\* the rejection handled after the optimistic promotion of the original
callServiceRejects_Promotes ==
    /\ inFlight # <<>>
    /\ inFlight' = Tail(inFlight)
    /\ saving' = FALSE
    /\ error' = "Service call failed"
    /\ clearPendingSave
    /\ originalSchedule' = schedule
    /\ hasUnsavedChanges' = FALSE
    /\ last' = [op |-> "saveDone", branch |-> "error"]
    /\ UNCHANGED <<entity, hass, previousEntityId, schedule, copySourceDay, sharedDays, pureVars>>

\* hass.callService rejects: saveSchedule returns status error, _saveSchedule
\* throws it and its catch block runs
callServiceRejects ==
    /\ inFlight # <<>>
    /\ inFlight' = Tail(inFlight)
    /\ saving' = FALSE
    /\ error' = "Service call failed"
    /\ clearPendingSave
    /\ last' = [op |-> "saveDone", branch |-> "error"]
    /\ UNCHANGED <<entity, hass, previousEntityId, schedule, originalSchedule,
                   hasUnsavedChanges, copySourceDay, sharedDays, pureVars>>

\* disconnectedCallback: the card is removed from the page and drops its
\* pending bookkeeping; a call in flight still completes afterwards
disconnectedCallback ==
    /\ clearPendingSave
    /\ last' = [op |-> "disconnected", branch |-> ""]
    /\ UNCHANGED <<entity, hass, previousEntityId, schedule, originalSchedule, saving,
                   error, hasUnsavedChanges, inFlight, copySourceDay, sharedDays, pureVars>>

\* the check of the timer callback inverted
timeoutIsCurrent_Inverted(saveId) == pendingSaveId # saveId

\* the check of the timer callback: is its save still the pending one?
timeoutIsCurrent(saveId) == pendingSaveId = saveId

\* the timer callback also giving up the remote call that is still in flight
pendingSaveTimeout_RetractsCall(saveId) ==
    /\ saveId \in timers
    /\ UNCHANGED <<entity, hass, previousEntityId, schedule, originalSchedule,
                   error, hasUnsavedChanges, copySourceDay, sharedDays, pureVars>>
    /\ IF timeoutIsCurrent(saveId)
       THEN /\ pendingSaveSchedule' = Null
            /\ pendingSaveId' = 0
            /\ pendingSaveTimeoutId' = 0
            /\ timers' = (timers \ {saveId}) \ {pendingSaveTimeoutId}
            /\ inFlight' = <<>>
            /\ saving' = FALSE
            /\ last' = [op |-> "timeout", branch |-> "cleared"]
       ELSE /\ timers' = timers \ {saveId}
            /\ last' = [op |-> "timeout", branch |-> "stale"]
            /\ UNCHANGED <<pendingSaveSchedule, pendingSaveId, pendingSaveTimeoutId,
                           inFlight, saving>>

\* the callback of the timer armed by the save with identifier saveId
pendingSaveTimeout(saveId) ==
    /\ saveId \in timers
    /\ UNCHANGED <<entity, hass, previousEntityId, schedule, originalSchedule, saving,
                   error, hasUnsavedChanges, inFlight, copySourceDay, sharedDays, pureVars>>
    /\ IF timeoutIsCurrent(saveId)
       THEN /\ pendingSaveSchedule' = Null
            /\ pendingSaveId' = 0
            /\ pendingSaveTimeoutId' = 0
            /\ timers' = (timers \ {saveId}) \ {pendingSaveTimeoutId}
            /\ last' = [op |-> "timeout", branch |-> "cleared"]
       ELSE /\ timers' = timers \ {saveId}
            /\ last' = [op |-> "timeout", branch |-> "stale"]
            /\ UNCHANGED <<pendingSaveSchedule, pendingSaveId, pendingSaveTimeoutId>>

Next ==
    \/ \E e \in Entities : setConfig(e)
    \/ \E newStates \in NextStates(hass) : updated(newStates)
    \/ \E ev \in ScheduleChangedEvents : handleScheduleChanged(ev[1], ev[2])
    \/ saveScheduleHandler
    \/ callServiceResolves
    \/ callServiceRejects
    \/ \E saveId \in timers : pendingSaveTimeout(saveId)
    \/ disconnectedCallback

Spec == Init /\ [][Next]_vars

\* the card while the user edits: store notifications, edits of one day and
\* the copy dialog, with no Save started
EditNext ==
    \/ \E e \in Entities : setConfig(e)
    \/ \E newStates \in NextStates(hass) : updated(newStates)
    \/ \E ev \in ScheduleChangedEvents : handleScheduleChanged(ev[1], ev[2])
    \* the editor that raises copy-requested is rendered only while _schedule is set
    \/ \E day \in CopySources : schedule # Null /\ handleCopyRequested(day)
    \* the copy dialog is rendered only while _copySourceDay is set
    \/ \E targetDays \in CopyTargets : copySourceDay # NullString /\ handleCopyConfirmed(targetDays)
    \/ copySourceDay # NullString /\ handleDialogClosed

EditSpec == Init /\ [][EditNext]_vars

\* the browser runs the callback of every armed timer
FairSpec == Spec /\ WF_vars(\E saveId \in timers : pendingSaveTimeout(saveId))

\* the store notifications of a whole session: nothing changed, monday changed
\* to DayB or to an invalid marker, or the store is back at its first values
SessionStates(h) ==
    {h, InitialStates,
     WithState(h, deriveDaySensorEntityId(Trv1, "monday"), serializeDaySchedule(DayB)),
     WithState(h, deriveDaySensorEntityId(Trv1, "monday"), "Unavailable")}

\* the edits of a whole session: two schedule-changed events and one copy
SessionEvents == {<<"monday", DayB2>>, <<"tuesday", DayB>>}
SessionTargets == {<<"tuesday", "wednesday">>}

\* the card over a whole session: loads and store notifications, edits, the
\* copy dialog, saves with both outcomes of the remote call, timer expiries
SessionNext ==
    \/ \E newStates \in SessionStates(hass) : updated(newStates)
    \/ \E ev \in SessionEvents : handleScheduleChanged(ev[1], ev[2])
    \/ \E day \in CopySources : schedule # Null /\ handleCopyRequested(day)
    \/ \E targetDays \in SessionTargets : copySourceDay # NullString /\ handleCopyConfirmed(targetDays)
    \/ copySourceDay # NullString /\ handleDialogClosed
    \/ saveScheduleHandler
    \/ callServiceResolves
    \/ callServiceRejects
    \/ \E saveId \in timers : pendingSaveTimeout(saveId)

SessionSpec == Init /\ [][SessionNext]_vars

\* a day schedule holding a transition at 24:00, a time the time codec rejects
DayOutOfRange == [transitions |-> <<[time |-> 0, temperature |-> 200],
                                    [time |-> 1440, temperature |-> 200]>>]

\* schedule-changed events whose detail the card takes as it comes: the
\* handler does not validate the day schedule it stores
FaultyScheduleChangedEvents ==
    {<<"monday", DayB2>>, <<"tuesday", DayB>>, <<"monday", DayOutOfRange>>}

\* the card when an event can carry a day schedule that cannot be serialized
FaultNext ==
    \/ \E newStates \in {hass, InitialStates} : updated(newStates)
    \/ \E ev \in FaultyScheduleChangedEvents : handleScheduleChanged(ev[1], ev[2])
    \/ saveScheduleHandler
    \/ callServiceResolves
    \/ callServiceRejects
    \/ \E saveId \in timers : pendingSaveTimeout(saveId)

\* every remote call completes and every armed timer fires
FaultSpec ==
    /\ Init
    /\ [][FaultNext]_vars
    /\ WF_vars(callServiceResolves \/ callServiceRejects)
    /\ WF_vars(\E saveId \in timers : pendingSaveTimeout(saveId))

-----------------------------------------------------------------------------
(* The pure functions of the library modules, each applied to one input *)

\* the character sequences of length at most n over chars
CharSeqs(chars, n) == UNION {[1..k -> chars] : k \in 0..n}

\* a string of n characters: first, then the letter a
LongSegment(n, first) == [i \in 1..n |-> IF i = 1 THEN first ELSE "a"]

\* the inputs of sanitizeMqttTopicSegment are null, every string of at most
\* MaxSegmentChars characters, and strings at and over the length limit
MaxSegmentChars == 2

SegmentChars == {"a", " ", "+", "#", "/", NulChar}

SegmentInputs ==
    {[null |-> TRUE, chars |-> <<>>]}
    \cup {[null |-> FALSE, chars |-> cs] :
            cs \in CharSeqs(SegmentChars, MaxSegmentChars)
                   \cup {LongSegment(MAX_TOPIC_SEGMENT_LENGTH, "a"),
                         LongSegment(MAX_TOPIC_SEGMENT_LENGTH + 1, "/"),
                         LongSegment(MAX_TOPIC_SEGMENT_LENGTH + 2, " ")}}

\* the default of the fallback parameter: 'unknown_device'
DefaultFallback == <<"u", "n", "k", "n", "o", "w", "n", "_", "d", "e", "v", "i", "c", "e">>

FallbackInputs ==
    {DefaultFallback, <<>>, <<" ">>, <<"a", "/", "b">>, LongSegment(MAX_TOPIC_SEGMENT_LENGTH + 1, "a")}

SanitizeCalls ==
    {[fn |-> "sanitizeMqttTopicSegment", input |-> i, fallback |-> f] :
        i \in SegmentInputs, f \in FallbackInputs}

\* the entity ids handed to saveSchedule: a domain and a device name of at most
\* MaxNameChars characters (none of them white space or a dot), or a bare name
MaxNameChars == 3

NameChars == {"a", "_", "+", "#", "/"}

SaveEntityIds ==
    {<<"climate", Text(cs)>> : cs \in CharSeqs(NameChars, MaxNameChars)} \cup {<<"a">>}

\* a pair of schedules that differ on monday, and a pair that do not differ
SaveSchedulePairs ==
    {<<createEmptyWeeklySchedule, [createEmptyWeeklySchedule EXCEPT !["monday"] = DayB]>>,
     <<createEmptyWeeklySchedule, createEmptyWeeklySchedule>>}

SaveCalls ==
    {[fn |-> "saveSchedule", entityId |-> e, original |-> p[1], modified |-> p[2]] :
        e \in SaveEntityIds, p \in SaveSchedulePairs}

\* the day schedules handed to computeScheduleDiff: at most MaxDiffTransitions
\* transitions, two of which share the time 06:00
MaxDiffTransitions == 3

DiffTransitions ==
    {[time |-> 0, temperature |-> 200], [time |-> 360, temperature |-> 225],
     [time |-> 360, temperature |-> 200]}

DiffDays == {[transitions |-> ts] : ts \in CharSeqs(DiffTransitions, MaxDiffTransitions)}

\* two weeks that hold the default schedule on every day but monday
DiffCalls ==
    {[fn |-> "computeScheduleDiff",
      original |-> [createEmptyWeeklySchedule EXCEPT !["monday"] = a],
      modified |-> [createEmptyWeeklySchedule EXCEPT !["monday"] = b]] :
        a \in DiffDays, b \in DiffDays}

\* the transitions handed to the validator: three valid ones, a time out of
\* range, a time that is not HH:mm, a temperature off the 0.5 steps and a
\* temperature below the range
ValidatorTransitions ==
    {[time |-> TimeChars(0), temperature |-> 200],
     [time |-> TimeChars(360), temperature |-> 225],
     [time |-> TimeChars(720), temperature |-> 350],
     [time |-> <<"2", "4", ":", "0", "0">>, temperature |-> 200],
     [time |-> <<"6", ":", "0", "0">>, temperature |-> 40],
     [time |-> TimeChars(360), temperature |-> 203],
     [time |-> TimeChars(720), temperature |-> 30]}

\* days of at most MaxMixedTransitions of these transitions, and days of up to
\* MaxTransitions valid transitions one hour apart (seven exceed the maximum)
MaxMixedTransitions == 3

MaxTransitions == 7

HourlyDay(n) == [transitions |-> [i \in 1..n |-> [time |-> TimeChars(60 * (i - 1)), temperature |-> 200]]]

ValidatorDays ==
    {[transitions |-> ts] : ts \in CharSeqs(ValidatorTransitions, MaxMixedTransitions)}
      \cup {HourlyDay(n) : n \in 1..MaxTransitions}

ValidateDayCalls == {[fn |-> "validateDaySchedule", day |-> d] : d \in ValidatorDays}

\* the days of the weeks handed to validateWeeklySchedule: an empty day, a
\* valid day and a day with two errors
WeekDayInputs ==
    {[transitions |-> <<>>],
     [transitions |-> <<[time |-> TimeChars(0), temperature |-> 200]>>],
     [transitions |-> <<[time |-> TimeChars(360), temperature |-> 203]>>]}

ValidateWeekCalls ==
    {[fn |-> "validateWeeklySchedule", week |-> w] : w \in [DayKeys -> WeekDayInputs]}

\* the temperatures handed to isValidTemperature, in tenths of a degree: from
\* -MaxTenths to MaxTenths, on both sides of the range 4..35
MaxTenths == 400

TemperatureCalls == {[fn |-> "isValidTemperature", temp10 |-> t] : t \in (0 - MaxTenths)..MaxTenths}

\* the strings handed to timeToMinutes: two digits, a colon, two digits, with
\* hours up to 29 and minutes up to 69, and two strings of another shape
TimeStrings ==
    {<<h1, h2, ":", m1, m2>> : h1 \in {"0", "1", "2"}, h2 \in {DigitChars[i] : i \in 1..10},
                               m1 \in {"0", "1", "2", "3", "4", "5", "6"},
                               m2 \in {DigitChars[i] : i \in 1..10}}
      \cup {<<"6", ":", "0", "0">>, <<"0", "6", "0", "0", ":">>}

\* the integers handed to minutesToTime: from -MaxMinutes to MaxMinutes
MaxMinutes == 1500

TimeCalls ==
    {[fn |-> "timeToMinutes", time |-> s] : s \in TimeStrings}
      \cup {[fn |-> "minutesToTime", minutes |-> k] : k \in (0 - MaxMinutes)..MaxMinutes}

\* the steps handed to generateTimeOptions: every positive integer up to MaxStep
MaxStep == 1500

TimeOptionCalls == {[fn |-> "generateTimeOptions", stepMinutes |-> k] : k \in 1..MaxStep}

\* the states a day sensor is read in: the six markers, markers in other
\* letter case, a string that is no schedule, and two schedules
DaySensorStates ==
    {"unavailable", "unknown", "none", "null", "", "n/a",
     "Unavailable", "UNKNOWN", "None", "NULL", "N/A",
     "bogus", serializeDaySchedule(DayA), serializeDaySchedule(DayB)}

\* stands for a day sensor that the store does not hold
AbsentSensor == "<absent>"

\* hass.states with every day sensor of Trv1 holding a schedule, except that
\* two days (or one) are absent or hold any of the states above
SensorStores ==
    LET key(d) == deriveDaySensorEntityId(Trv1, d)
        held(d, d1, v1, d2, v2) ==
            IF d = d1 THEN v1 ELSE IF d = d2 THEN v2 ELSE serializeDaySchedule(DayA)
    IN  {[k \in {key(d) : d \in {x \in DayKeys : held(x, d1, v1, d2, v2) # AbsentSensor}} |->
             held(CHOOSE d \in DayKeys : key(d) = k, d1, v1, d2, v2)] :
            d1 \in DayKeys, d2 \in DayKeys,
            v1 \in DaySensorStates \cup {AbsentSensor},
            v2 \in DaySensorStates \cup {AbsentSensor}}

SensorCalls == {[fn |-> "getScheduleFromSensor", states |-> h, entityId |-> Trv1] : h \in SensorStores}

\* the inputs of isValidMqttTopicSegment: those of the sanitizer and a string
\* of letters one over the length limit
ValidSegmentCalls ==
    {[fn |-> "isValidMqttTopicSegment", input |-> i] :
        i \in SegmentInputs
              \cup {[null |-> FALSE, chars |-> LongSegment(MAX_TOPIC_SEGMENT_LENGTH + 1, "a")]}}

PureCalls ==
    SanitizeCalls \cup SaveCalls \cup DiffCalls \cup ValidateDayCalls \cup ValidateWeekCalls
      \cup TemperatureCalls \cup TimeCalls \cup SensorCalls \cup ValidSegmentCalls

PureInit ==
    /\ CardInit
    /\ pureCall \in PureCalls
    /\ pureResult = <<>>

applySanitizeMqttTopicSegment ==
    /\ pureCall.fn = "sanitizeMqttTopicSegment"
    /\ pureResult = <<>>
    /\ pureResult' = <<sanitizeMqttTopicSegment(pureCall.input, pureCall.fallback)>>
    /\ UNCHANGED <<pureCall, cardVars>>

applySaveSchedule ==
    /\ pureCall.fn = "saveSchedule"
    /\ pureResult = <<>>
    /\ pureResult' = <<saveSchedule(pureCall.entityId, pureCall.original, pureCall.modified)>>
    /\ UNCHANGED <<pureCall, cardVars>>

\* the diff and the payload built from it
applyComputeScheduleDiff ==
    /\ pureCall.fn = "computeScheduleDiff"
    /\ pureResult = <<>>
    /\ pureResult' = LET diff == computeScheduleDiff(pureCall.original, pureCall.modified)
                     IN  <<[diff |-> diff, payload |-> buildPartialPayload(diff)]>>
    /\ UNCHANGED <<pureCall, cardVars>>

applyValidateDaySchedule ==
    /\ pureCall.fn = "validateDaySchedule"
    /\ pureResult = <<>>
    /\ pureResult' = <<validateDaySchedule(pureCall.day)>>
    /\ UNCHANGED <<pureCall, cardVars>>

applyValidateWeeklySchedule ==
    /\ pureCall.fn = "validateWeeklySchedule"
    /\ pureResult = <<>>
    /\ pureResult' = <<validateWeeklySchedule(pureCall.week)>>
    /\ UNCHANGED <<pureCall, cardVars>>

applyIsValidTemperature ==
    /\ pureCall.fn = "isValidTemperature"
    /\ pureResult = <<>>
    /\ pureResult' = <<isValidTemperature(pureCall.temp10)>>
    /\ UNCHANGED <<pureCall, cardVars>>

\* timeToMinutes(time), and minutesToTime of what it returned
applyTimeToMinutes ==
    /\ pureCall.fn = "timeToMinutes"
    /\ pureResult = <<>>
    /\ pureResult' = LET minutes == timeToMinutes(pureCall.time)
                     IN  <<[first |-> minutes,
                            back  |-> IF minutes.throws THEN Throws
                                      ELSE minutesToTimeChars(minutes.value)]>>
    /\ UNCHANGED <<pureCall, cardVars>>

\* minutesToTime(minutes), and timeToMinutes of what it returned
applyMinutesToTime ==
    /\ pureCall.fn = "minutesToTime"
    /\ pureResult = <<>>
    /\ pureResult' = LET time == minutesToTimeChars(pureCall.minutes)
                     IN  <<[first |-> time,
                            back  |-> IF time.throws THEN Throws
                                      ELSE timeToMinutes(time.value)]>>
    /\ UNCHANGED <<pureCall, cardVars>>

\* generateTimeOptions runs one iteration of its loop at a time
applyGenerateTimeOptions ==
    /\ pureCall.fn = "generateTimeOptions"
    /\ IF pureResult = <<>> THEN TRUE ELSE pureResult[1].running
    /\ pureResult' = <<generateTimeOptionsStep(pureCall.stepMinutes,
                          IF pureResult = <<>> THEN TimeOptionsStart ELSE pureResult[1])>>
    /\ UNCHANGED <<pureCall, cardVars>>

applyGetScheduleFromSensor ==
    /\ pureCall.fn = "getScheduleFromSensor"
    /\ pureResult = <<>>
    /\ pureResult' = <<getScheduleFromSensor(pureCall.states, pureCall.entityId)>>
    /\ UNCHANGED <<pureCall, cardVars>>

\* isValidMqttTopicSegment(input), and what sanitizeMqttTopicSegment(input)
\* reports for the same input with its default fallback
applyIsValidMqttTopicSegment ==
    /\ pureCall.fn = "isValidMqttTopicSegment"
    /\ pureResult = <<>>
    /\ pureResult' = <<[valid |-> isValidMqttTopicSegment(pureCall.input),
                        value |-> sanitizeMqttTopicSegment(pureCall.input, DefaultFallback),
                        wasModified |-> sanitizeWasModified(pureCall.input, DefaultFallback)]>>
    /\ UNCHANGED <<pureCall, cardVars>>

PureNext ==
    \/ applySanitizeMqttTopicSegment
    \/ applySaveSchedule
    \/ applyComputeScheduleDiff
    \/ applyValidateDaySchedule
    \/ applyValidateWeeklySchedule
    \/ applyIsValidTemperature
    \/ applyTimeToMinutes
    \/ applyMinutesToTime
    \/ applyGetScheduleFromSensor
    \/ applyIsValidMqttTopicSegment

PureSpec == PureInit /\ [][PureNext]_vars

\* generateTimeOptions called with one step; its loop keeps running until the
\* function returns or throws
TimeOptionsInit ==
    /\ CardInit
    /\ pureCall \in TimeOptionCalls
    /\ pureResult = <<>>

TimeOptionsNext == applyGenerateTimeOptions

TimeOptionsSpec == TimeOptionsInit /\ [][TimeOptionsNext]_vars /\ WF_vars(TimeOptionsNext)

\* the function named fn has returned
Returned(fn) == pureCall.fn = fn /\ Len(pureResult) = 1

-----------------------------------------------------------------------------
(* Vocabulary of the properties *)

\* the days whose serialized form differs between two weekly schedules
DaysThatDiffer(a, b) == {d \in DayKeys : serializeDaySchedule(a[d]) # serializeDaySchedule(b[d])}

\* a Save can start: working and original are present and no Save is in flight
SaveActionable == schedule # Null /\ originalSchedule # Null /\ ~saving

\* this step is a run of the named handler
SaveStep == last'.op = "save"
UpdatedStep == last'.op = "updated"

\* the state of the day sensor of the configured device in states h, if present
SensorPresent(h, d) == deriveDaySensorEntityId(entity, d) \in DOMAIN h
SensorState(h, d) == h[deriveDaySensorEntityId(entity, d)]

\* no pending-confirmation state: no snapshot, no identifier, no armed timer
NoPendingSave(snapshot, id, handle, armed) ==
    snapshot = Null /\ id = 0 /\ handle = 0 /\ armed = {}

-----------------------------------------------------------------------------
(* C1: a Save whose original and working differ in at least one day issues    *)
(* exactly one publish call, to zigbee2mqtt/<device>/set, whose payload has   *)
(* exactly the keys weekly_schedule_<day> of the days that differ, each       *)
(* mapped to the serialized day of working; no other step issues a call.      *)
C1_SavePublishesChangedDays ==
    [][/\ (SaveStep /\ SaveActionable /\ DaysThatDiffer(originalSchedule, schedule) # {}) =>
            LET changed == DaysThatDiffer(originalSchedule, schedule)
                call == inFlight'[Len(inFlight')]
            IN  /\ Len(inFlight') = Len(inFlight) + 1
                /\ SubSeq(inFlight', 1, Len(inFlight)) = inFlight
                /\ call.topic = "zigbee2mqtt/" \o entity[2] \o "/set"
                /\ DOMAIN call.payload = {"weekly_schedule_" \o d : d \in changed}
                /\ \A d \in changed :
                      call.payload["weekly_schedule_" \o d] = serializeDaySchedule(schedule[d])
       /\ Len(inFlight') > Len(inFlight) => SaveStep /\ SaveActionable
      ]_vars

\* a Save has just published both edited days
C1_Witness ==
    /\ last = [op |-> "save", branch |-> "publish"]
    /\ Len(inFlight) = 1
    /\ DOMAIN inFlight[1].payload = {"weekly_schedule_monday", "weekly_schedule_tuesday"}
    /\ inFlight[1].payload["weekly_schedule_monday"] = "00:00/20 06:00/22.5"

(* C2: a Save whose diff is empty is skipped: it issues no call, clears the   *)
(* unsaved-changes flag and leaves no pending snapshot, identifier or timer,  *)
(* and the saving flag is not left set.                                       *)
C2_EmptyDiffSkipped ==
    [][(SaveStep /\ SaveActionable /\ DaysThatDiffer(originalSchedule, schedule) = {}) =>
            /\ last'.branch = "skipped"
            /\ inFlight' = inFlight
            /\ ~hasUnsavedChanges'
            /\ ~saving'
            /\ NoPendingSave(pendingSaveSchedule', pendingSaveId', pendingSaveTimeoutId', timers')
      ]_vars

\* a Save was skipped although working was edited: monday holds the permuted
\* transitions of the original's monday
C2_Witness ==
    /\ last = [op |-> "save", branch |-> "skipped"]
    /\ schedule # Null /\ originalSchedule # Null
    /\ schedule["monday"] # originalSchedule["monday"]
    /\ ~hasUnsavedChanges

(* C3: at most one publish call is in flight, and a Save invoked while the    *)
(* saving flag is set, or while working or original is absent, starts         *)
(* nothing: no call, no pending state, no change of the saving flag.          *)
C3_OneSaveInFlight ==
    [][/\ Len(inFlight') <= 1
       /\ (SaveStep /\ ~SaveActionable) =>
             UNCHANGED <<inFlight, saving, schedule, originalSchedule, hasUnsavedChanges,
                         pendingSaveSchedule, pendingSaveId, pendingSaveTimeoutId, timers>>
      ]_vars

\* a Save was invoked while a call is in flight, after an edit made in flight
C3_Witness ==
    /\ last = [op |-> "save", branch |-> "ignored"]
    /\ saving
    /\ Len(inFlight) = 1
    /\ hasUnsavedChanges

\* the pending bookkeeping of the card
pendingVars == <<pendingSaveSchedule, pendingSaveId, pendingSaveTimeoutId, timers>>

\* this step settles the publish call of a Save: it resolved, or it was rejected
CallResolvedStep == last'.op = "saveDone" /\ last'.branch # "error"
CallRejectedStep == last'.op = "saveDone" /\ last'.branch = "error"

(* C4: when the publish call of a Save succeeds, original becomes a copy of    *)
(* working and the unsaved-changes flag is cleared, and the pending snapshot,  *)
(* identifier and timer are left as they are.                                  *)
C4_SuccessPromotesOriginal ==
    [][CallResolvedStep =>
            /\ originalSchedule' # Null
            /\ originalSchedule' = schedule'
            /\ ~hasUnsavedChanges'
            /\ UNCHANGED pendingVars
      ]_vars

(* C5: when the publish call of a Save fails (or saveSchedule returns an       *)
(* error), the pending snapshot, identifier and timer are cleared and an       *)
(* error message is set; neither the start of the Save nor the failure         *)
(* changes working, original or the unsaved-changes flag.                      *)
C5_FailureKeepsEdits ==
    [][/\ (CallRejectedStep \/ (SaveStep /\ last'.branch = "error")) =>
            /\ NoPendingSave(pendingSaveSchedule', pendingSaveId', pendingSaveTimeoutId', timers')
            /\ error' # NullString
            /\ ~saving'
            /\ UNCHANGED <<schedule, originalSchedule, hasUnsavedChanges>>
       /\ (SaveStep /\ last'.branch = "publish") =>
            UNCHANGED <<schedule, originalSchedule, hasUnsavedChanges>>
      ]_vars

\* the call failed and the edit of monday is still unsaved and re-saveable
C5_Witness ==
    /\ last = [op |-> "saveDone", branch |-> "error"]
    /\ SaveActionable
    /\ hasUnsavedChanges
    /\ DaysThatDiffer(originalSchedule, schedule) = {"monday"}
    /\ pendingSaveSchedule = Null

\* the store values of all seven days of the configured device equal the
\* pending snapshot
SevenDaysMatch(h) ==
    \A d \in DayKeys : SensorPresent(h, d) /\ SensorState(h, d) = pendingSaveSchedule[d]

(* C6 as claimed: with a pending snapshot and no Save in flight, a store       *)
(* notification clears the pending state if and only if all seven store        *)
(* values equal the snapshot, and otherwise leaves it unchanged.               *)
C6_ClearedIffAllMatch ==
    [][(UpdatedStep /\ pendingSaveSchedule # Null /\ ~saving) =>
            IF SevenDaysMatch(hass')
            THEN NoPendingSave(pendingSaveSchedule', pendingSaveId', pendingSaveTimeoutId', timers')
            ELSE UNCHANGED pendingVars
      ]_vars

(* C6 amended: the same, for a notification that arrives while the configured  *)
(* device is the one last loaded (config.entity = _previousEntityId).          *)
C6_ClearedIffAllMatchSameDevice ==
    [][(UpdatedStep /\ pendingSaveSchedule # Null /\ ~saving /\ entity = previousEntityId) =>
            IF SevenDaysMatch(hass')
            THEN NoPendingSave(pendingSaveSchedule', pendingSaveId', pendingSaveTimeoutId', timers')
            ELSE UNCHANGED pendingVars
      ]_vars

\* the store caught up with a saved two-transition monday and the pending state
\* was cleared by the notification
C6_Witness ==
    /\ last = [op |-> "updated", branch |-> "confirmed"]
    /\ entity = previousEntityId
    /\ pendingSaveSchedule = Null /\ timers = {}
    /\ SensorPresent(hass, "monday") /\ SensorState(hass, "monday") = "00:00/20 06:00/22.5"
    /\ schedule # Null /\ serializeDaySchedule(schedule["monday"]) = "00:00/20 06:00/22.5"

(* C7 as claimed: a store notification never runs Load and never replaces      *)
(* working or original while a Save is in flight or a pending snapshot exists. *)
C7_NoLoadWhileSavingOrPending ==
    [][(UpdatedStep /\ (saving \/ pendingSaveSchedule # Null)) =>
            /\ last'.branch \notin {"entityChanged", "reload"}
            /\ UNCHANGED <<schedule, originalSchedule>>
      ]_vars

(* C7 amended: while the configured device is the one last loaded, a store     *)
(* notification that arrives during a Save or with a pending snapshot runs no  *)
(* Load: working, original, the unsaved-changes flag and the error stay.       *)
C7_NoLoadWhileSavingOrPendingSameDevice ==
    [][(UpdatedStep /\ (saving \/ pendingSaveSchedule # Null) /\ entity = previousEntityId) =>
            /\ last'.branch \in {"saving", "confirmed", "pending"}
            /\ UNCHANGED <<schedule, originalSchedule, hasUnsavedChanges, error>>
      ]_vars

\* the monday sensor disappeared while the call was in flight and the
\* notification left the loaded schedule in place
C7_Witness ==
    /\ last = [op |-> "updated", branch |-> "saving"]
    /\ entity = previousEntityId
    /\ saving /\ pendingSaveSchedule # Null
    /\ ~SensorPresent(hass, "monday")
    /\ schedule # Null /\ originalSchedule # Null

\* some day value of the configured device differs between two notifications:
\* a state changed, a sensor disappeared, or one appeared with valid content
DayValueDiffers(old, new) ==
    \E d \in DayKeys :
        \/ SensorPresent(old, d) /\ SensorPresent(new, d) /\ SensorState(old, d) # SensorState(new, d)
        \/ SensorPresent(old, d) /\ ~SensorPresent(new, d)
        \/ ~SensorPresent(old, d) /\ SensorPresent(new, d)
              /\ ToLowerCase(SensorState(new, d)) \notin INVALID_SENSOR_STATES

(* C8: with no Save in flight and no pending snapshot, a notification in which *)
(* a day value differs from the previous one runs Load: the error is reset and *)
(* working is replaced, by null when the climate entity or a day sensor is     *)
(* absent, and otherwise, when the seven values parse, by the parsed schedule  *)
(* with original a copy of it and the unsaved-changes flag cleared.            *)
C8_ChangeTriggersLoad ==
    [][(UpdatedStep /\ ~saving /\ pendingSaveSchedule = Null /\ DayValueDiffers(hass, hass')) =>
            LET parsed == getScheduleFromSensor(hass', entity)
                absent == \/ EntityIdString(entity) \notin DOMAIN hass'
                          \/ \E d \in DayKeys : ~SensorPresent(hass', d)
            IN  /\ last'.branch \in {"reload", "entityChanged"}
                /\ absent => schedule' = Null /\ error' # NullString
                /\ (~absent /\ parsed # Null) =>
                      /\ schedule' = parsed
                      /\ originalSchedule' = parsed
                      /\ ~hasUnsavedChanges'
                      /\ error' = NullString
                /\ (~absent /\ parsed = Null) => schedule' # Null /\ hasUnsavedChanges'
      ]_vars

\* the monday sensor changed to the two-transition day and the reload replaced
\* working with it
C8_Witness ==
    /\ last = [op |-> "updated", branch |-> "reload"]
    /\ ~saving /\ pendingSaveSchedule = Null
    /\ schedule # Null /\ schedule["monday"] = DayB /\ originalSchedule = schedule
    /\ ~hasUnsavedChanges

C10_MissingSensorClearsBoth ==
    [][(/\ UpdatedStep /\ last'.branch \in {"entityChanged", "reload"}
        /\ EntityIdString(entity) \in DOMAIN hass'
        /\ \E d \in DayKeys : ~SensorPresent(hass', d)) =>
            /\ error' = "Schedule sensors not found: "
                          \o Join(SelectSeq([i \in 1..7 |-> deriveDaySensorEntityId(entity, DAYS_OF_WEEK[i])],
                                            LAMBDA k : k \notin DOMAIN hass'), ", ")
            /\ schedule' = Null
            /\ originalSchedule' = Null
      ]_vars

-----------------------------------------------------------------------------
\* this step runs Load
LoadStep == UpdatedStep /\ last'.branch \in {"entityChanged", "reload"}

\* the climate entity and its seven day sensors all exist in states h
AllKeysPresent(h) ==
    /\ EntityIdString(entity) \in DOMAIN h
    /\ \A d \in DayKeys : SensorPresent(h, d)

\* some day value of h is an invalid marker or does not parse
SomeDayUnusable(h) ==
    \E d \in DayKeys :
        \/ ToLowerCase(SensorState(h, d)) \in INVALID_SENSOR_STATES
        \/ parseDaySchedule(SensorState(h, d)) = Null

(* C11: when Load finds all seven day sensors but one of their values is an    *)
(* invalid marker or does not parse, working becomes the default schedule of   *)
(* createEmptyWeeklySchedule, the unsaved-changes flag is set, the warning is  *)
(* shown, and original is present, so that Save is actionable unless one is in *)
(* flight.                                                                     *)
C11_UnusableValuesFallBackToDefault ==
    [][(LoadStep /\ AllKeysPresent(hass') /\ SomeDayUnusable(hass')) =>
            /\ schedule' = createEmptyWeeklySchedule
            /\ hasUnsavedChanges'
            /\ error' = "No valid schedule found on sensors. Using default schedule."
            /\ originalSchedule' # Null
            /\ ~saving' => SaveActionable'
      ]_vars

\* the tuesday sensor reported a token that does not parse and the reload fell
\* back to the default schedule
C11_Witness ==
    /\ last = [op |-> "updated", branch |-> "reload"]
    /\ AllKeysPresent(hass)
    /\ SensorState(hass, "tuesday") = "bogus"
    /\ schedule = createEmptyWeeklySchedule
    /\ hasUnsavedChanges
    /\ SaveActionable

-----------------------------------------------------------------------------
\* this step applies an edit to working
EditStep == last'.op \in {"scheduleChanged", "copyConfirmed"}

(* C12: when Load finds all seven day values present and parseable, working    *)
(* is the parsed schedule, original is equal to it (so their serialized forms  *)
(* are equal) and shares no object with it, the unsaved-changes flag and the   *)
(* error are cleared; working and original never share an object, and no edit  *)
(* of working changes original.                                                *)
C12_LoadSetsIndependentCopies ==
    [][/\ (LoadStep /\ AllKeysPresent(hass') /\ ~SomeDayUnusable(hass')) =>
            /\ schedule' = [d \in DayKeys |-> parseDaySchedule(SensorState(hass', d))]
            /\ originalSchedule' = schedule'
            /\ serializeWeeklySchedule(originalSchedule') = serializeWeeklySchedule(schedule')
            /\ ~hasUnsavedChanges'
            /\ error' = NullString
       /\ sharedDays' = {}
       /\ EditStep => UNCHANGED originalSchedule
      ]_vars

\* the first Load read a two-transition monday; an edit of tuesday then changed
\* working and left original as loaded
C12_Witness ==
    /\ last = [op |-> "scheduleChanged", branch |-> "applied"]
    /\ AllKeysPresent(hass) /\ ~SomeDayUnusable(hass)
    /\ originalSchedule = [d \in DayKeys |-> parseDaySchedule(SensorState(hass, d))]
    /\ originalSchedule["monday"] = DayB
    /\ schedule["tuesday"] = DayB /\ originalSchedule["tuesday"] = DayA
    /\ sharedDays = {}

-----------------------------------------------------------------------------
(* C13: a schedule-changed event is ignored when working is absent; otherwise  *)
(* it replaces the day it names by the day schedule it carries, whether or not *)
(* that schedule is valid, sets the unsaved-changes flag, and leaves the other *)
(* six days, original, the pending state, the saving flag, the error and the   *)
(* calls in flight unchanged.                                                  *)
C13_EditReplacesOneDay ==
    [][last'.op = "scheduleChanged" =>
            /\ UNCHANGED <<originalSchedule, pendingVars, saving, error, inFlight, entity, hass>>
            /\ IF schedule = Null
               THEN last'.branch = "ignored" /\ UNCHANGED <<schedule, hasUnsavedChanges>>
               ELSE /\ last'.branch = "applied"
                    /\ hasUnsavedChanges'
                    /\ DOMAIN schedule' = DayKeys
                    /\ \E ev \in ScheduleChangedEvents :
                          /\ schedule'[ev[1]] = ev[2]
                          /\ \A d \in DayKeys \ {ev[1]} : schedule'[d] = schedule[d]
      ]_vars

\* an edit made while a Save was in flight stored an unsorted monday, which the
\* validator rejects, and left original and the pending snapshot alone
C13_Witness ==
    /\ last = [op |-> "scheduleChanged", branch |-> "applied"]
    /\ schedule["monday"] = DayB2
    /\ ~validateDaySchedule(DayAsTyped(DayB2)).valid
    /\ originalSchedule # Null /\ originalSchedule["monday"] = DayA
    /\ \A d \in DayKeys \ {"monday"} : schedule[d] = originalSchedule[d]
    /\ hasUnsavedChanges
    /\ saving /\ pendingSaveSchedule # Null

-----------------------------------------------------------------------------
\* this step handles a copy-confirmed event
CopyConfirmedStep == last'.op = "copyConfirmed"

(* C14 as claimed: after a copy-confirmed event every target day of working    *)
(* holds the transitions the source day held before, the days outside the      *)
(* targets and original are unchanged, and the unsaved-changes flag is set.    *)
C14_CopyAppliesSource ==
    [][CopyConfirmedStep =>
            /\ schedule # Null /\ schedule' # Null
            /\ \A t \in TargetSet(last'.targetDays) :
                  schedule'[t].transitions = schedule[copySourceDay].transitions
            /\ \A d \in DayKeys \ TargetSet(last'.targetDays) : schedule'[d] = schedule[d]
            /\ UNCHANGED originalSchedule
            /\ hasUnsavedChanges'
      ]_vars

(* C14 amended: the same when working is present; when working is absent the   *)
(* event is ignored: working, original, the flag and the source day stay.      *)
C14_CopyAppliesSourceWhenLoaded ==
    [][CopyConfirmedStep =>
            /\ UNCHANGED originalSchedule
            /\ IF schedule = Null
               THEN UNCHANGED <<schedule, hasUnsavedChanges, copySourceDay>>
               ELSE /\ \A t \in TargetSet(last'.targetDays) :
                          schedule'[t].transitions = schedule[copySourceDay].transitions
                    /\ \A d \in DayKeys \ TargetSet(last'.targetDays) : schedule'[d] = schedule[d]
                    /\ hasUnsavedChanges'
      ]_vars

\* the two-transition monday was copied to tuesday and wednesday; thursday and
\* original still hold what was loaded
C14_Witness ==
    /\ last = [op |-> "copyConfirmed", branch |-> "applied", targetDays |-> <<"tuesday", "wednesday">>]
    /\ schedule["monday"].transitions = DayB.transitions
    /\ schedule["tuesday"].transitions = DayB.transitions
    /\ schedule["wednesday"].transitions = DayB.transitions
    /\ schedule["thursday"] = DayA
    /\ originalSchedule["tuesday"] = DayA /\ originalSchedule["wednesday"] = DayA
    /\ hasUnsavedChanges

-----------------------------------------------------------------------------
\* the topic segments that hold none of the forbidden characters
SafeSegments ==
    {Text(cs) : cs \in CharSeqs(NameChars \ MQTT_FORBIDDEN_CHARS, MaxNameChars) \ {<<>>}}

(* C15: whatever the entity id, the topic saveSchedule publishes to is         *)
(* zigbee2mqtt/<segment>/set with a segment that holds none of '+', '#', '/',  *)
(* NUL, so that the topic has exactly three levels.                            *)
C15_TopicSegmentSanitized ==
    (Returned("saveSchedule") /\ pureResult[1].status = "publish") =>
        \E seg \in SafeSegments : pureResult[1].topic = "zigbee2mqtt/" \o seg \o "/set"

(* C16: for every input and every fallback, the value sanitizeMqttTopicSegment *)
(* returns holds none of '+', '#', '/', NUL, is not empty and is at most 256   *)
(* characters long.                                                            *)
C16_SanitizedValueSafe ==
    Returned("sanitizeMqttTopicSegment") =>
        LET value == pureResult[1]
        IN  /\ \A i \in 1..Len(value) : value[i] \notin MQTT_FORBIDDEN_CHARS
            /\ Len(value) > 0
            /\ Len(value) <= MAX_TOPIC_SEGMENT_LENGTH

-----------------------------------------------------------------------------
\* two day schedules hold the same multiset of transitions
SameMultiset(a, b) ==
    /\ Len(a.transitions) = Len(b.transitions)
    /\ \A i \in 1..Len(a.transitions) :
          Cardinality({j \in 1..Len(a.transitions) : a.transitions[j] = a.transitions[i]})
            = Cardinality({j \in 1..Len(b.transitions) : b.transitions[j] = a.transitions[i]})

\* no two transitions of the day schedule share a time
DistinctDiffTimes(a) ==
    \A i, j \in 1..Len(a.transitions) : i # j => a.transitions[i].time # a.transitions[j].time

\* the diff reports nothing and the payload built from it is empty
NoChangeReported(r) ==
    /\ ~r.diff.hasChanges
    /\ r.diff.changedDays = <<>>
    /\ DOMAIN r.diff.changes = {}
    /\ DOMAIN r.payload = {}

-----------------------------------------------------------------------------
\* the HH:mm strings: the texts of the 1440 minutes of a day
MinutesOfDay == 0..1439

IsHHmm(time) == \E m \in MinutesOfDay : TimeChars(m) = time

MinuteOf(time) == CHOOSE m \in MinutesOfDay : TimeChars(m) = time

\* a temperature in [4, 35] that is a multiple of 0.5, in tenths of a degree
TemperatureInSteps(t10) == 40 <= t10 /\ t10 <= 350 /\ t10 % 5 = 0

\* the DaySchedule invariants
DayInvariants(d) ==
    LET ts == d.transitions
    IN  /\ 1 <= Len(ts) /\ Len(ts) <= 6
        /\ ts[1].time = TimeChars(0)
        /\ \A i \in 1..Len(ts) : IsHHmm(ts[i].time) /\ TemperatureInSteps(ts[i].temperature)
        /\ \A i \in 1..(Len(ts) - 1) : MinuteOf(ts[i].time) < MinuteOf(ts[i + 1].time)

(* C18: validateDaySchedule(d).valid is true exactly when d has between 1 and  *)
(* 6 transitions, its first time is 00:00, its times are strictly increasing   *)
(* and every transition has a valid HH:mm time and a temperature in [4,35]     *)
(* that is a multiple of 0.5; and valid is true exactly when the error list    *)
(* is empty.                                                                   *)
C18_ValidIffDayInvariants ==
    Returned("validateDaySchedule")
        => /\ pureResult[1].valid <=> DayInvariants(pureCall.day)
           /\ pureResult[1].valid <=> pureResult[1].errors = <<>>

\* a day of six transitions was found valid
C18_Witness ==
    /\ Returned("validateDaySchedule")
    /\ Len(pureCall.day.transitions) = 6
    /\ pureResult[1].valid

\* a day whose only fault is a first transition later than 00:00 was rejected
C18_WitnessFirstTime ==
    /\ Returned("validateDaySchedule")
    /\ pureCall.day.transitions = <<[time |-> TimeChars(360), temperature |-> 225],
                                    [time |-> TimeChars(720), temperature |-> 350]>>
    /\ pureResult[1].errors = <<"First transition must be at 00:00, found 06:00">>

-----------------------------------------------------------------------------
\* the seven days in the order sunday..saturday and their capitalized names
WeekOrder == <<"sunday", "monday", "tuesday", "wednesday", "thursday", "friday", "saturday">>

WeekTitles == <<"Sunday", "Monday", "Tuesday", "Wednesday", "Thursday", "Friday", "Saturday">>

\* the errors validateDaySchedule reports for the k-th day of the week
DayErrorsOf(week, k) == validateDaySchedule(week[WeekOrder[k]]).errors

RECURSIVE ErrorsBefore(_, _)
\* the number of errors of the days before the k-th
ErrorsBefore(week, k) ==
    IF k = 1 THEN 0 ELSE ErrorsBefore(week, k - 1) + Len(DayErrorsOf(week, k - 1))

(* C19: validateWeeklySchedule returns the errors of validateDaySchedule for   *)
(* the seven days in the order sunday..saturday, each prefixed with the        *)
(* capitalized day name and a colon, so their number is the sum of the         *)
(* per-day counts; a week of seven empty days yields exactly 7 errors, one     *)
(* per day.                                                                    *)
C19_WeeklyErrorsPerDayInOrder ==
    Returned("validateWeeklySchedule")
        => LET week == pureCall.week
               errors == pureResult[1].errors
           IN  /\ Len(errors) = ErrorsBefore(week, 8)
               /\ \A k \in 1..7 : \A j \in 1..Len(DayErrorsOf(week, k)) :
                     errors[ErrorsBefore(week, k) + j]
                       = WeekTitles[k] \o ": " \o DayErrorsOf(week, k)[j]
               /\ pureResult[1].valid <=> errors = <<>>
               /\ (\A d \in DayKeys : week[d].transitions = <<>>)
                     => errors = [k \in 1..7 |-> WeekTitles[k] \o ": "
                                      \o "Day schedule must have at least 1 transition"]

\* a week with an empty sunday, a valid monday and two errors on saturday
C19_Witness ==
    /\ Returned("validateWeeklySchedule")
    /\ \A d \in DayKeys \ {"sunday", "saturday"} : validateDaySchedule(pureCall.week[d]).valid
    /\ pureResult[1].errors =
          <<"Sunday: Day schedule must have at least 1 transition",
            "Saturday: First transition must be at 00:00, found 06:00",
            "Saturday: Transition 1: Temperature 20.3°C is invalid. Must be in 0.5°C steps">>

\* the week of seven empty days yielded seven errors
C19_WitnessAllEmpty ==
    /\ Returned("validateWeeklySchedule")
    /\ \A d \in DayKeys : pureCall.week[d].transitions = <<>>
    /\ Len(pureResult[1].errors) = 7

-----------------------------------------------------------------------------
(* C20: isValidTemperature(t) is true exactly when 4 <= t <= 35, both bounds   *)
(* included, and t is a multiple of 0.5: in tenths of a degree, exactly when   *)
(* 40 <= t10 <= 350 and t10 mod 5 = 0.                                         *)
C20_TemperatureValidIffInRangeAndStep ==
    Returned("isValidTemperature")
        => (pureResult[1] <=> (/\ 40 <= pureCall.temp10
                               /\ pureCall.temp10 <= 350
                               /\ pureCall.temp10 % 5 = 0))

\* 35 was accepted
C20_Witness ==
    /\ Returned("isValidTemperature")
    /\ pureCall.temp10 = 350
    /\ pureResult[1] = TRUE

\* 20.3, inside the range and off the steps, was rejected
C20_WitnessOffStep ==
    /\ Returned("isValidTemperature")
    /\ pureCall.temp10 = 203
    /\ pureResult[1] = FALSE

-----------------------------------------------------------------------------
\* a valid HH:mm string: two digits of an hour up to 23, a colon, two digits
\* of a minute up to 59
ValidHHmm(s) ==
    /\ Len(s) = 5
    /\ s[3] = ":"
    /\ \A i \in {1, 2, 4, 5} : IsDigitChar(s[i])
    /\ 10 * DigitValue(s[1]) + DigitValue(s[2]) <= 23
    /\ 10 * DigitValue(s[4]) + DigitValue(s[5]) <= 59

(* C21: minutesToTime(timeToMinutes(s)) = s for every valid HH:mm string s,    *)
(* timeToMinutes(minutesToTime(m)) = m for every integer m with 0 <= m < 1440, *)
(* and minutesToTime fails for every m < 0 and every m >= 1440.                *)
C21_TimeRoundTrip ==
    /\ (Returned("timeToMinutes") /\ ValidHHmm(pureCall.time))
          => /\ ~pureResult[1].first.throws
             /\ pureResult[1].back = Returns(pureCall.time)
    /\ Returned("minutesToTime")
          => IF 0 <= pureCall.minutes /\ pureCall.minutes < 1440
             THEN /\ ~pureResult[1].first.throws
                  /\ pureResult[1].back = Returns(pureCall.minutes)
             ELSE pureResult[1].first.throws

\* 23:59 went to 1439 and back
C21_Witness ==
    /\ Returned("timeToMinutes")
    /\ pureCall.time = <<"2", "3", ":", "5", "9">>
    /\ pureResult[1].first = Returns(1439)
    /\ pureResult[1].back = Returns(pureCall.time)

\* minutesToTime threw for 1440 and for -1
C21_WitnessOutside ==
    /\ Returned("minutesToTime")
    /\ pureCall.minutes \in {-1, 1440}
    /\ pureResult[1].first.throws

-----------------------------------------------------------------------------
\* ceil(n / d) for positive integers
CeilDiv(n, d) == (n + d - 1) \div d

\* generateTimeOptions has left its loop
TimeOptionsReturned == Returned("generateTimeOptions") /\ ~pureResult[1].running

\* what the claim says of the returned sequence
TimeOptionsWellFormed ==
    TimeOptionsReturned
        => /\ ~pureResult[1].throws
           /\ LET options == pureResult[1].value
                  n == Len(options)
              IN  /\ n = CeilDiv(1440, pureCall.stepMinutes)
                  /\ options[1] = <<"0", "0", ":", "0", "0">>
                  /\ \A i \in 1..n : ValidHHmm(options[i])
                  /\ \A i \in 1..(n - 1) :
                        timeToMinutes(options[i]).value < timeToMinutes(options[i + 1]).value
                  /\ Cardinality({options[i] : i \in 1..n}) = n
                  /\ \A i \in 1..n : options[i] # <<"2", "4", ":", "0", "0">>

(* C22: for every positive integer step, generateTimeOptions(step) terminates  *)
(* and returns a sequence that starts at 00:00, is strictly increasing with    *)
(* no duplicates, never contains 24:00 and has exactly ceil(1440/step)         *)
(* entries, whether or not step divides 1440.                                  *)
C22_TimeOptionsWellFormed ==
    /\ []TimeOptionsWellFormed
    /\ (pureCall.fn = "generateTimeOptions") ~> TimeOptionsReturned

\* a step that does not divide 1440: 7 gives 206 options, the last one 23:55
C22_Witness ==
    /\ TimeOptionsReturned
    /\ pureCall.stepMinutes = 7
    /\ ~pureResult[1].throws
    /\ Len(pureResult[1].value) = 206
    /\ pureResult[1].value[206] = <<"2", "3", ":", "5", "5">>

\* a step that divides 1440: 15 gives 96 options, the last one 23:45
C22_WitnessDivides ==
    /\ TimeOptionsReturned
    /\ pureCall.stepMinutes = 15
    /\ ~pureResult[1].throws
    /\ Len(pureResult[1].value) = 96
    /\ pureResult[1].value[96] = <<"2", "3", ":", "4", "5">>

-----------------------------------------------------------------------------
\* the invalid-marker values, in the letter cases a sensor is read in
InvalidMarkers ==
    {"unavailable", "unknown", "none", "null", "n/a", "",
     "Unavailable", "UNKNOWN", "None", "NULL", "N/A"}

\* the key of the day is absent from the store, or holds a marker, or holds a
\* string that does not parse
NoDataForDay(h, entityId, d) ==
    LET key == deriveDaySensorEntityId(entityId, d)
    IN  \/ key \notin DOMAIN h
        \/ h[key] \in InvalidMarkers
        \/ parseDaySchedule(h[key]) = Null

(* C23: getScheduleFromSensor returns null whenever at least one of the seven  *)
(* per-day keys is absent from the store, holds an invalid-marker value in     *)
(* any letter case, or holds a value that fails to parse; it returns a         *)
(* schedule, the parsed value of every day, only when all seven values are     *)
(* present, not markers, and parse. No call ends in an exception.              *)
C23_NullUnlessAllDaysUsable ==
    Returned("getScheduleFromSensor")
        => LET h == pureCall.states
               e == pureCall.entityId
           IN  IF \E d \in DayKeys : NoDataForDay(h, e, d)
               THEN pureResult[1] = Null
               ELSE /\ pureResult[1] # Null
                    /\ \A d \in DayKeys :
                          serializeDaySchedule(pureResult[1][d])
                            = h[deriveDaySensorEntityId(e, d)]

\* null was returned because saturday holds N/A, all other days being usable
C23_Witness ==
    /\ Returned("getScheduleFromSensor")
    /\ deriveDaySensorEntityId(Trv1, "saturday") \in DOMAIN pureCall.states
    /\ pureCall.states[deriveDaySensorEntityId(Trv1, "saturday")] = "N/A"
    /\ \A d \in DayKeys \ {"saturday"} : ~NoDataForDay(pureCall.states, Trv1, d)
    /\ pureResult[1] = Null

\* a schedule was returned for seven usable days
C23_WitnessSchedule ==
    /\ Returned("getScheduleFromSensor")
    /\ pureResult[1] # Null
    /\ pureResult[1]["monday"] = DayB

-----------------------------------------------------------------------------
\* the remote call of a Save succeeded and the handler promoted the original
SaveSucceededStep == last'.op = "saveDone" /\ last'.branch = "success"

(* C24: edits applied to working while the remote call of a Save is in flight  *)
(* are not absorbed into original: when that Save succeeds, the serialized     *)
(* form of original equals the pending snapshot taken when the Save started,   *)
(* and working, where it differs from the snapshot, still counts as unsaved    *)
(* and differs from original.                                                  *)
C24_InFlightEditsNotAbsorbed ==
    [][(SaveSucceededStep /\ pendingSaveSchedule # Null)
          => /\ serializeWeeklySchedule(originalSchedule') = pendingSaveSchedule
             /\ serializeWeeklySchedule(schedule') # pendingSaveSchedule
                   => /\ hasUnsavedChanges'
                      /\ DaysThatDiffer(originalSchedule', schedule') # {}
      ]_vars

-----------------------------------------------------------------------------
\* a Save that published: it took a snapshot and armed its timer
SavePublishedStep == last'.op = "save" /\ last'.branch = "publish"

\* the callback of a timer ran
TimeoutStep == last'.op = "timeout"

\* every armed timer is the one of the pending save: its handle and identifier
\* are the current ones and the snapshot is present
ArmedTimerIsCurrent ==
    \A t \in timers : /\ t = pendingSaveTimeoutId
                      /\ t = pendingSaveId
                      /\ pendingSaveSchedule # Null

-----------------------------------------------------------------------------
\* a Save that found an empty diff
SaveSkippedStep == last'.op = "save" /\ last'.branch = "skipped"

(* C26: a Save that turns out to be skipped (empty diff) leaves the pending    *)
(* state of an earlier successful, still-unconfirmed Save in place: its        *)
(* snapshot, identifier and timer survive. Stated for a Save started with the  *)
(* unsaved-changes flag set, when the Save button is enabled.                  *)
C26_SkippedSaveKeepsPending ==
    [][(SaveSkippedStep /\ pendingSaveSchedule # Null /\ hasUnsavedChanges)
          => /\ pendingSaveSchedule' = pendingSaveSchedule
             /\ pendingSaveId' = pendingSaveId
             /\ timers' = timers
      ]_vars

-----------------------------------------------------------------------------
\* the store after the device applied the payload to values that matched original
StoreAfterApplying(payload, original) ==
    [d \in DayKeys |->
        IF PayloadKey(d) \in DOMAIN payload THEN payload[PayloadKey(d)]
        ELSE serializeDaySchedule(original[d])]

(* C27: the pending snapshot recorded by a Save is the serialized form of all  *)
(* seven days of working at the moment the Save starts, not only of the days   *)
(* in the diff; hence a store that matched original and to which the device    *)
(* applies exactly the transmitted days equals the snapshot on all seven days. *)
C27_SnapshotIsFullEndState ==
    [][SavePublishedStep
          => /\ DOMAIN pendingSaveSchedule' = DayKeys
             /\ \A d \in DayKeys : pendingSaveSchedule'[d] = serializeDaySchedule(schedule[d])
             /\ Len(inFlight') = Len(inFlight) + 1
             /\ StoreAfterApplying(inFlight'[Len(inFlight')].payload, originalSchedule)
                   = pendingSaveSchedule'
      ]_vars

\* a Save transmitted monday alone and its snapshot holds all seven days, with
\* tuesday as loaded from the store
C27_Witness ==
    /\ last = [op |-> "save", branch |-> "publish"]
    /\ Len(inFlight) = 1
    /\ DOMAIN inFlight[1].payload = {"weekly_schedule_monday"}
    /\ DOMAIN pendingSaveSchedule = DayKeys
    /\ pendingSaveSchedule["monday"] = "00:00/20 06:00/22.5"
    /\ pendingSaveSchedule["tuesday"] = "00:00/20 06:00/22.5"
    /\ pendingSaveSchedule["sunday"] = "00:00/20"

\* C28: every Save that sets the saving flag eventually resets it, whatever the
\* outcome of the Save, a failure of the serialization of the working schedule
\* included: saving leads to not saving once the remote call has completed.
C28_SavingEventuallyReset == saving ~> ~saving

\* C29: every Save obtains an identifier strictly greater than the identifier
\* of every earlier Save; checked where the earlier identifier is still held
\* by the card: a Save that publishes while an identifier is pending leaves a
\* greater one.
C29_SaveIdsStrictlyIncrease ==
    [][(SavePublishedStep /\ pendingSaveId # 0) => pendingSaveId' > pendingSaveId]_vars

C30_WitnessDisconnected ==
    /\ last.op = "disconnected" /\ inFlight # <<>>
    /\ pendingSaveSchedule = Null /\ pendingSaveId = 0 /\ timers = {}

\* C31: whenever working and original are both present and the unsaved-changes
\* flag is false, the diff between original and working is empty: every day
\* serializes identically.
C31_CleanFlagMeansEmptyDiff ==
    (schedule # Null /\ originalSchedule # Null /\ ~hasUnsavedChanges)
        => ~computeScheduleDiff(originalSchedule, schedule).hasChanges

\* a Save of a week changed by an edit and a copy has succeeded: the flag is
\* clear and the original is the edited week
C31_Witness ==
    /\ last.op = "saveDone" /\ last.branch = "success"
    /\ schedule # Null /\ originalSchedule # Null /\ ~hasUnsavedChanges
    /\ originalSchedule["wednesday"] = DayB2

\* a Load has replaced an edited week: the flag is clear again
C31_WitnessReload ==
    /\ last.op = "updated" /\ last.branch = "reload"
    /\ schedule # Null /\ originalSchedule # Null /\ ~hasUnsavedChanges
    /\ schedule["monday"] = DayB

\* updated() saw a changed device identifier and ran _loadSchedule for it
EntityChangedStep == last'.op = "updated" /\ last'.branch = "entityChanged"

\* C32: when the target device identifier changes and Load runs for the new
\* device, no pending-confirmation snapshot (of the previous device) remains.
C32_EntityChangeDropsSnapshot ==
    [][EntityChangedStep => pendingSaveSchedule' = Null]_vars

\* C33: the expiry of the bounded wait only clears the pending bookkeeping:
\* working, original, the unsaved-changes flag and the error are unchanged, no
\* Load runs (the store view and the loaded device are unchanged), no remote
\* call is issued and the call already sent stays in flight.
C33_TimeoutOnlyClearsBookkeeping ==
    [][TimeoutStep =>
          /\ pendingSaveSchedule' = Null /\ pendingSaveId' = 0 /\ pendingSaveTimeoutId' = 0
          /\ timers' = {}
          /\ UNCHANGED <<schedule, originalSchedule, hasUnsavedChanges, error, saving,
                         inFlight, hass, entity, previousEntityId>>]_vars

\* the wait has expired while the call it was armed for is still in flight
C33_Witness ==
    /\ last.op = "timeout" /\ last.branch = "cleared"
    /\ inFlight # <<>> /\ saving /\ hasUnsavedChanges

\* the wait has expired after the call succeeded and the user edited again
C33_WitnessAfterSuccess ==
    /\ last.op = "timeout" /\ last.branch = "cleared"
    /\ inFlight = <<>> /\ hasUnsavedChanges /\ originalSchedule # Null
    /\ computeScheduleDiff(originalSchedule, schedule).hasChanges

\* the message _loadSchedule leaves when it fell back to the default schedule
FallbackMessage == "No valid schedule found on sensors. Using default schedule."

\* updated() ran a Load that fell back to the default schedule
FallbackLoadStep ==
    /\ last'.op = "updated" /\ last'.branch \in {"entityChanged", "reload"}
    /\ error' = FallbackMessage

\* the card holds the default schedule of a fallback Load, unedited, and the
\* Save button is enabled
FallbackUnedited ==
    /\ error = FallbackMessage /\ hasUnsavedChanges /\ ~saving
    /\ schedule = createEmptyWeeklySchedule
    /\ originalSchedule = createEmptyWeeklySchedule

\* C34: a Load that fell back to the default schedule leaves original equal to
\* working with the unsaved-changes flag set, and a Save issued before any
\* edit is skipped: it issues no remote call and clears the flag.
C34_FallbackSaveSkipped ==
    [][/\ FallbackLoadStep =>
             /\ schedule' = createEmptyWeeklySchedule
             /\ originalSchedule' = schedule'
             /\ hasUnsavedChanges'
       /\ (FallbackUnedited /\ last'.op = "save") =>
             /\ last'.branch = "skipped"
             /\ inFlight' = inFlight
             /\ ~hasUnsavedChanges' /\ ~saving']_vars

\* the Save of the unedited default schedule was skipped while the sensors
\* still hold no valid schedule
C34_Witness ==
    /\ last.op = "save" /\ last.branch = "skipped"
    /\ schedule = createEmptyWeeklySchedule /\ originalSchedule = createEmptyWeeklySchedule
    /\ getScheduleFromSensor(hass, entity) = Null
    /\ ~hasUnsavedChanges /\ inFlight = <<>>

\* the two structural messages of validateDaySchedule
DuplicateMessage == "Duplicate transition times found. Each time must be unique"

OrderMessage(prevTime, currTime) ==
    "Transitions must be in chronological order: " \o Text(prevTime)
        \o " should come before " \o Text(currTime)

\* some time string occurs at two positions of the day
HasRepeatedTime(d) ==
    \E i, j \in 1..Len(d.transitions) : i # j /\ d.transitions[i].time = d.transitions[j].time

\* the positions i whose time is, like that of position i - 1, a valid HH:mm
\* string and is not later than it, in ascending order
OrderViolations(d) ==
    LET ts == d.transitions
    IN  SelectSeq([k \in 1..(Len(ts) - 1) |-> k + 1],
                  LAMBDA i : /\ IsHHmm(ts[i - 1].time) /\ IsHHmm(ts[i].time)
                             /\ MinuteOf(ts[i].time) <= MinuteOf(ts[i - 1].time))

\* the chronological-order errors among errors, and all messages of that form
\* over the times of the day
OrderErrorsOf(d, errors) ==
    LET ts == d.transitions
        all == {OrderMessage(ts[i].time, ts[j].time) : i, j \in 1..Len(ts)}
    IN  SelectSeq(errors, LAMBDA e : e \in all)

\* C35: validateDaySchedule short-circuits only on an empty day (exactly one
\* error); on a non-empty day it reports one aggregate duplicate-times error
\* exactly when a time string repeats and, independently, one order error for
\* every adjacent pair of valid times whose second is not later than the first.
C35_StructuralChecksCumulative ==
    Returned("validateDaySchedule") =>
        LET d == pureCall.day
            errors == pureResult[1].errors
            violations == OrderViolations(d)
        IN  IF Len(d.transitions) = 0
            THEN errors = <<"Day schedule must have at least 1 transition">>
            ELSE /\ Len(SelectSeq(errors, LAMBDA e : e = DuplicateMessage))
                       = (IF HasRepeatedTime(d) THEN 1 ELSE 0)
                 /\ OrderErrorsOf(d, errors)
                       = [k \in 1..Len(violations) |->
                             OrderMessage(d.transitions[violations[k] - 1].time,
                                          d.transitions[violations[k]].time)]

\* a day with a repeated time and two order violations got all three errors
C35_Witness ==
    /\ Returned("validateDaySchedule")
    /\ HasRepeatedTime(pureCall.day)
    /\ Len(OrderViolations(pureCall.day)) = 2
    /\ Len(SelectSeq(pureResult[1].errors, LAMBDA e : e = DuplicateMessage)) = 1
    /\ Len(OrderErrorsOf(pureCall.day, pureResult[1].errors)) = 2

\* the empty day got its single error
C35_WitnessEmpty ==
    /\ Returned("validateDaySchedule")
    /\ pureCall.day.transitions = <<>>
    /\ Len(pureResult[1].errors) = 1

\* a repeated malformed time got the duplicate error and no order error
C35_WitnessMalformed ==
    /\ Returned("validateDaySchedule")
    /\ HasRepeatedTime(pureCall.day)
    /\ OrderViolations(pureCall.day) = <<>>
    /\ Len(SelectSeq(pureResult[1].errors, LAMBDA e : e = DuplicateMessage)) = 1

\* the input has white space at one of its ends: trim() changes it
HasOuterWhiteSpace(input) == Trim(input.chars) # input.chars

\* C36 as stated: for every non-null string x, isValidMqttTopicSegment(x) is
\* true exactly when sanitizeMqttTopicSegment(x).wasModified is false.
C36_PredicateAgreesWithSanitizer ==
    (Returned("isValidMqttTopicSegment") /\ ~pureCall.input.null)
        => (pureResult[1].valid <=> ~pureResult[1].wasModified)

\* C36 amended: the two agree for every non-null string without white space
\* at its ends, where wasModified is false exactly when the sanitizer returns
\* the input itself; a string with white space at an end is always reported
\* as modified, while the predicate looks at its length and characters only.
C36_PredicateAgreesOnTrimmedInput ==
    (Returned("isValidMqttTopicSegment") /\ ~pureCall.input.null)
        => /\ ~pureResult[1].wasModified <=> pureResult[1].value = pureCall.input.chars
           /\ IF HasOuterWhiteSpace(pureCall.input)
              THEN /\ pureResult[1].wasModified
                   /\ pureResult[1].valid <=>
                         /\ Trim(pureCall.input.chars) # <<>>
                         /\ Len(pureCall.input.chars) <= MAX_TOPIC_SEGMENT_LENGTH
                         /\ \A k \in 1..Len(pureCall.input.chars) :
                                pureCall.input.chars[k] \notin MQTT_FORBIDDEN_CHARS
              ELSE pureResult[1].valid <=> ~pureResult[1].wasModified

\* a clean name: the predicate is true and the sanitizer returns it unmodified
C36_Witness ==
    /\ Returned("isValidMqttTopicSegment")
    /\ ~pureCall.input.null /\ ~HasOuterWhiteSpace(pureCall.input)
    /\ pureResult[1].valid /\ ~pureResult[1].wasModified

\* a name with white space in front: the predicate is true, the sanitizer
\* trims it and reports the modification
C36_WitnessPadded ==
    /\ Returned("isValidMqttTopicSegment")
    /\ ~pureCall.input.null /\ HasOuterWhiteSpace(pureCall.input)
    /\ pureResult[1].valid /\ pureResult[1].wasModified

\* letters only, one over the limit: rejected by the predicate, truncated by
\* the sanitizer
C36_WitnessTooLong ==
    /\ Returned("isValidMqttTopicSegment")
    /\ pureCall.input.chars = LongSegment(MAX_TOPIC_SEGMENT_LENGTH + 1, "a")
    /\ ~pureResult[1].valid /\ pureResult[1].wasModified
    /\ Len(pureResult[1].value) = MAX_TOPIC_SEGMENT_LENGTH

====
